---------------------------- MODULE Spec2Model ----------------------------
(***************************************************************************)
(* Timetable router (multi-day and single-day variants), TimetableService, *)
(* the time-overlap helpers and classActivity.gradeSubmission, modelled as *)
(* state machines over the persistent store.                               *)
(***************************************************************************)
EXTENDS Integers, Sequences, FiniteSets, TLC

VARIABLES
    timetables,       \* rows of "timetables": [id, classId, classGroupId, termId]
    periods,          \* rows of "periods"
    breakTimes,       \* rows of "break_times"
    submissions,      \* rows of "activity_submissions", keyed by submission id
    activities,       \* rows of "class_activities" with their configuration
    view,             \* the state of the client component on screen
    inflight,         \* the requests the server has received, each with its position
    call              \* the last procedure call: its name, input and outcome

vars == <<timetables, periods, breakTimes, submissions, activities, view, inflight, call>>

dbVars == <<timetables, periods, breakTimes>>

None == "none"

\* no component on screen
NoView == [component |-> None]

\* null where a row (a record) is expected
NoRow == [id |-> 0]

(***************************************************************************)
(* Times of day.  On the wire a time is a zero-padded "HH:mm" string; it   *)
(* is modelled as the sequence of its five UTF-16 code units ('0' = 48,    *)
(* ':' = 58), which is what the JavaScript string comparison reads.        *)
(***************************************************************************)
HHmm(h, m) == <<48 + (h \div 10), 48 + (h % 10), 58, 48 + (m \div 10), 48 + (m % 10)>>

\* JavaScript's a < b on strings: code unit by code unit, a proper prefix is smaller.
StrLess(a, b) ==
    \/ \E i \in 1..Len(a) :
          /\ i <= Len(b)
          /\ a[i] < b[i]
          /\ \A j \in 1..(i - 1) : a[j] = b[j]
    \/ /\ Len(a) < Len(b)
       /\ \A j \in 1..Len(a) : a[j] = b[j]

\* a > b on strings
StrGreater(a, b) == StrLess(b, a)

\* The time of day a "HH:mm" string denotes, in minutes after midnight.
MinutesOf(t) == ((t[1] - 48) * 10 + (t[2] - 48)) * 60 + (t[4] - 48) * 10 + (t[5] - 48)

\* new Date(`1970-01-01T${t}`) (and its `...:00` form): a timestamp on the epoch
\* day, kept in minutes; timestamps compare as numbers.
ToDate(t) == MinutesOf(t)

\* date.toTimeString().slice(0, 5): back to "HH:mm"
ToTimeString(d) == HHmm(d \div 60, d % 60)

TimeValues ==
    { HHmm(9, 0), HHmm(10, 0), HHmm(10, 15), HHmm(10, 30), HHmm(11, 0) }

(***************************************************************************)
(* The overlap helpers.                                                    *)
(***************************************************************************)
\* a plausible slip: inclusive comparison, as the store queries use
isTimeOverlapping_Inclusive(start1, end1, start2, end2) ==
    ~StrGreater(start1, end2) /\ ~StrLess(end1, start2)

isTimeOverlapping(start1, end1, start2, end2) ==
    StrLess(start1, end2) /\ StrGreater(end1, start2)

Service_isTimeOverlapping(start1, end1, start2, end2) ==
    StrLess(start1, end2) /\ StrGreater(end1, start2)

InitStore ==
    /\ timetables = {}
    /\ periods = {}
    /\ breakTimes = {}
    /\ submissions = << >>
    /\ activities = {}
    /\ view = NoView
    /\ inflight = {}

NoCall == [op |-> None]

(***************************************************************************)
(* SpecOverlap: the two helpers applied to every choice of four times.     *)
(***************************************************************************)
OverlapArgs ==
    { [op |-> "args", start1 |-> s1, end1 |-> e1, start2 |-> s2, end2 |-> e2] :
        s1 \in TimeValues, e1 \in TimeValues, s2 \in TimeValues, e2 \in TimeValues }

InitOverlap == InitStore /\ call \in OverlapArgs

CallIsTimeOverlapping ==
    /\ call.op = "args"
    /\ call' = [op |-> "isTimeOverlapping",
                start1 |-> call.start1, end1 |-> call.end1,
                start2 |-> call.start2, end2 |-> call.end2,
                result |-> isTimeOverlapping(call.start1, call.end1, call.start2, call.end2),
                swapped |-> isTimeOverlapping(call.start2, call.end2, call.start1, call.end1)]
    /\ UNCHANGED <<dbVars, submissions, activities, view, inflight>>

CallServiceIsTimeOverlapping ==
    /\ call.op = "args"
    /\ call' = [op |-> "TimetableService.isTimeOverlapping",
                start1 |-> call.start1, end1 |-> call.end1,
                start2 |-> call.start2, end2 |-> call.end2,
                result |-> Service_isTimeOverlapping(call.start1, call.end1, call.start2, call.end2),
                swapped |-> Service_isTimeOverlapping(call.start2, call.end2, call.start1, call.end1)]
    /\ UNCHANGED <<dbVars, submissions, activities, view, inflight>>

NextOverlap == CallIsTimeOverlapping \/ CallServiceIsTimeOverlapping

SpecOverlap == InitOverlap /\ [][NextOverlap]_vars

IsOverlapCall == call.op \in {"isTimeOverlapping", "TimetableService.isTimeOverlapping"}

\* C5: isTimeOverlapping (both copies) is true exactly when start1 is before
\* end2 and end1 is after start2 as times of day, so intervals that only touch
\* do not overlap (09:00-10:00 vs 10:00-10:30 is false, 09:00-10:15 vs
\* 10:00-10:30 is true), and swapping the two intervals gives the same result.
C5_OverlapIff ==
    IsOverlapCall =>
        /\ call.result = (/\ MinutesOf(call.start1) < MinutesOf(call.end2)
                          /\ MinutesOf(call.end1) > MinutesOf(call.start2))
        /\ call.result = call.swapped
        /\ (/\ call.start1 = HHmm(9, 0) /\ call.end1 = HHmm(10, 0)
            /\ call.start2 = HHmm(10, 0) /\ call.end2 = HHmm(10, 30)) => ~call.result
        /\ (/\ call.start1 = HHmm(9, 0) /\ call.end1 = HHmm(10, 15)
            /\ call.start2 = HHmm(10, 0) /\ call.end2 = HHmm(10, 30)) => call.result

\* the touching pair of the claim's example has been evaluated
C5_Witness ==
    /\ call.op = "isTimeOverlapping"
    /\ call.start1 = HHmm(9, 0) /\ call.end1 = HHmm(10, 0)
    /\ call.start2 = HHmm(10, 0) /\ call.end2 = HHmm(10, 30)
    /\ call.result = FALSE


(***************************************************************************)
(* Reference data of the store: teacher users and their profiles, rooms,   *)
(* subjects, classes, class groups and terms.                              *)
(***************************************************************************)
TeacherUserIds == {"u1", "u2", "u3"}

\* prisma.teacherProfile.findFirst({ where: { userId } }): the profile's id, or
\* none for a user without a teacher profile.  Generated ids are distinct, so a
\* user id never equals a profile id.
TeacherProfileOf(userId) ==
    CASE userId = "u1" -> "tp1"
      [] userId = "u2" -> "tp2"
      [] OTHER -> None

TeacherProfileIds == {"tp1", "tp2"}
ClassroomIds == {"r1", "r2"}
SubjectIds == {"s1"}
DaysOfWeek == {1, 2}

(***************************************************************************)
(* checkAvailability: the router's two variants and the service's.         *)
(***************************************************************************)
\* a plausible slip: strict comparison, as isTimeOverlapping uses
PeriodsInConflict_Exclusive(column, entityId, dayOfWeek, startDate, endDate) ==
    { p \in periods :
        /\ p[column] = entityId
        /\ p.dayOfWeek = dayOfWeek
        /\ p.startTime < endDate
        /\ p.endTime > startDate }

\* The store's filter of both period queries: same column value, same day,
\* startTime <= candidate end AND endTime >= candidate start.
PeriodsInConflict(column, entityId, dayOfWeek, startDate, endDate) ==
    { p \in periods :
        /\ p[column] = entityId
        /\ p.dayOfWeek = dayOfWeek
        /\ p.startTime <= endDate
        /\ p.endTime >= startDate }

\* findFirst: any one of the matching rows, or none when nothing matches
FindFirst(rows) == IF rows = {} THEN {NoRow} ELSE rows

\* breakTimes.find(predicate): the first element of the list among those the
\* predicate holds of (hits: their indices)
FindBreakTime(list, hits) ==
    IF hits = {} THEN NoRow
    ELSE list[CHOOSE i \in hits : \A j \in hits : i <= j]

\* timetable.class of a stored period (the `include` of the router's queries)
ClassOfPeriod(p) ==
    LET t == CHOOSE t \in timetables : t.id = p.timetableId IN t.classId

BreakTimeConflict(b) ==
    [type |-> "BREAK_TIME", startTime |-> b.startTime, endTime |-> b.endTime,
     dayOfWeek |-> b.dayOfWeek, entityId |-> "break", additionalInfo |-> None]

RouterPeriodConflict(type, p, entityId) ==
    [type |-> type, startTime |-> ToTimeString(p.startTime),
     endTime |-> ToTimeString(p.endTime), dayOfWeek |-> p.dayOfWeek,
     entityId |-> entityId, additionalInfo |-> <<"Class: ", ClassOfPeriod(p)>>]

\* date.toISOString()
ToISOString(d) == <<"1970-01-01T", ToTimeString(d), ":00.000Z">>

ServicePeriodConflict(type, p, entityId) ==
    [type |-> type, startTime |-> ToISOString(p.startTime),
     endTime |-> ToISOString(p.endTime), dayOfWeek |-> p.dayOfWeek,
     entityId |-> entityId, additionalInfo |-> None]

Push(cond, conflict) == IF cond THEN <<conflict>> ELSE << >>

\* a plausible slip: the break-time test made inclusive like the store queries
RouterDayConflicts_InclusiveBreak(period, breaks, dayOfWeek) ==
    LET b == FindBreakTime(breaks,
                 { i \in 1..Len(breaks) :
                     /\ breaks[i].dayOfWeek = dayOfWeek
                     /\ isTimeOverlapping_Inclusive(period.startTime, period.endTime,
                          breaks[i].startTime, breaks[i].endTime) })
        startDate == ToDate(period.startTime)
        endDate == ToDate(period.endTime)
    IN  { Push(b # NoRow, BreakTimeConflict(b))
            \o Push(t # NoRow, RouterPeriodConflict("TEACHER", t, t.teacherId))
            \o Push(c # NoRow, RouterPeriodConflict("CLASSROOM", c, c.classroomId)) :
          t \in FindFirst(PeriodsInConflict("teacherId", period.teacherId,
                                            dayOfWeek, startDate, endDate)),
          c \in FindFirst(PeriodsInConflict("classroomId", period.classroomId,
                                            dayOfWeek, startDate, endDate)) }

\* The router's checks for one day: break time, then teacher, then classroom.
\* The set of conflict lists the call can produce (findFirst picks any match).
RouterDayConflicts(period, breaks, dayOfWeek) ==
    LET b == FindBreakTime(breaks,
                 { i \in 1..Len(breaks) :
                     /\ breaks[i].dayOfWeek = dayOfWeek
                     /\ isTimeOverlapping(period.startTime, period.endTime,
                          breaks[i].startTime, breaks[i].endTime) })
        startDate == ToDate(period.startTime)
        endDate == ToDate(period.endTime)
    IN  { Push(b # NoRow, BreakTimeConflict(b))
            \o Push(t # NoRow, RouterPeriodConflict("TEACHER", t, t.teacherId))
            \o Push(c # NoRow, RouterPeriodConflict("CLASSROOM", c, c.classroomId)) :
          t \in FindFirst(PeriodsInConflict("teacherId", period.teacherId,
                                            dayOfWeek, startDate, endDate)),
          c \in FindFirst(PeriodsInConflict("classroomId", period.classroomId,
                                            dayOfWeek, startDate, endDate)) }

\* the multi-day variant's loop over input.period.daysOfWeek
RECURSIVE RouterMultiDayConflicts(_, _, _)
RouterMultiDayConflicts(period, breaks, days) ==
    IF days = << >> THEN { << >> }
    ELSE { a \o rest :
             a \in RouterDayConflicts(period, breaks, Head(days)),
             rest \in RouterMultiDayConflicts(period, breaks, Tail(days)) }

\* TimetableService.checkAvailability: teacher, then classroom, then break time.
\* The period's HH:mm strings are handed to the store as the filter values of
\* the timestamp columns; they are read as the times of day they denote.
ServiceConflicts(period, breaks) ==
    LET startDate == ToDate(period.startTime)
        endDate == ToDate(period.endTime)
        b == FindBreakTime(breaks,
                 { i \in 1..Len(breaks) :
                     /\ breaks[i].dayOfWeek = period.dayOfWeek
                     /\ Service_isTimeOverlapping(period.startTime, period.endTime,
                          breaks[i].startTime, breaks[i].endTime) })
    IN  { Push(t # NoRow, ServicePeriodConflict("TEACHER", t, period.teacherId))
            \o Push(c # NoRow, ServicePeriodConflict("CLASSROOM", c, period.classroomId))
            \o Push(b # NoRow, BreakTimeConflict(b)) :
          t \in FindFirst(PeriodsInConflict("teacherId", period.teacherId,
                                            period.dayOfWeek, startDate, endDate)),
          c \in FindFirst(PeriodsInConflict("classroomId", period.classroomId,
                                            period.dayOfWeek, startDate, endDate)) }

AvailabilityCheck(conflicts) ==
    [isAvailable |-> (Len(conflicts) = 0), conflicts |-> conflicts]

(***************************************************************************)
(* SpecAvail: the three checkAvailability implementations applied to a     *)
(* store holding up to MaxStoredPeriods periods of one timetable.          *)
(***************************************************************************)
MaxStoredPeriods == 2
MaxBreakTimes == 1

\* the k-th stored period shape: interval, day, teacher profile, classroom
StoredPeriodShapes == 0..15

StoredPeriod(k) ==
    [id |-> k + 1,
     timetableId |-> 1,
     startTime |-> IF k % 2 = 0 THEN ToDate(HHmm(9, 0)) ELSE ToDate(HHmm(10, 30)),
     endTime |-> IF k % 2 = 0 THEN ToDate(HHmm(10, 0)) ELSE ToDate(HHmm(11, 0)),
     dayOfWeek |-> 1 + ((k \div 2) % 2),
     durationInMinutes |-> 45,
     subjectId |-> "s1",
     teacherId |-> IF (k \div 4) % 2 = 0 THEN "tp1" ELSE "tp2",
     classroomId |-> IF (k \div 8) % 2 = 0 THEN "r1" ELSE "r2"]

CandidateIntervals ==
    { <<HHmm(9, 0), HHmm(10, 0)>>, <<HHmm(10, 0), HHmm(11, 0)>>,
      <<HHmm(10, 15), HHmm(11, 0)>> }

CandidateDayLists == { <<1>>, <<2>>, <<1, 2>> }

CandidatePeriods ==
    { [startTime |-> iv[1], endTime |-> iv[2], daysOfWeek |-> days,
       subjectId |-> "s1", teacherId |-> "tp1", classroomId |-> "r1",
       durationInMinutes |-> 45] :
      iv \in CandidateIntervals, days \in CandidateDayLists }

BreakTimeInputs ==
    { [startTime |-> HHmm(10, 0), endTime |-> HHmm(10, 15), dayOfWeek |-> d] :
      d \in DaysOfWeek }

BreakTimeLists == UNION { [1..n -> BreakTimeInputs] : n \in 0..MaxBreakTimes }

InitAvail ==
    /\ timetables = { [id |-> 1, classId |-> "c1", classGroupId |-> "g1", termId |-> "t1"] }
    /\ \E ks \in SUBSET StoredPeriodShapes :
          /\ Cardinality(ks) <= MaxStoredPeriods
          /\ periods = { StoredPeriod(k) : k \in ks }
    /\ breakTimes = {}
    /\ submissions = << >>
    /\ activities = {}
    /\ view = NoView
    /\ inflight = {}
    /\ \E p \in CandidatePeriods, bts \in BreakTimeLists :
          call = [op |-> "args", period |-> p, breakTimes |-> bts]

\* the single-day input shape: dayOfWeek in place of daysOfWeek
SingleDayPeriod(p) ==
    [startTime |-> p.startTime, endTime |-> p.endTime, dayOfWeek |-> p.daysOfWeek[1],
     subjectId |-> p.subjectId, teacherId |-> p.teacherId,
     classroomId |-> p.classroomId, durationInMinutes |-> p.durationInMinutes]

CheckAvailabilityMultiDay ==
    /\ call.op = "args"
    /\ \E conflicts \in RouterMultiDayConflicts(call.period, call.breakTimes,
                                                call.period.daysOfWeek) :
          call' = [op |-> "checkAvailability", variant |-> "multi-day",
                   period |-> call.period, breakTimes |-> call.breakTimes,
                   result |-> AvailabilityCheck(conflicts)]
    /\ UNCHANGED <<dbVars, submissions, activities, view, inflight>>

CheckAvailabilitySingleDay ==
    /\ call.op = "args"
    /\ Len(call.period.daysOfWeek) = 1
    /\ LET p == SingleDayPeriod(call.period) IN
       \E conflicts \in RouterDayConflicts(p, call.breakTimes, p.dayOfWeek) :
          call' = [op |-> "checkAvailability", variant |-> "single-day",
                   period |-> call.period, breakTimes |-> call.breakTimes,
                   result |-> AvailabilityCheck(conflicts)]
    /\ UNCHANGED <<dbVars, submissions, activities, view, inflight>>

ServiceCheckAvailability ==
    /\ call.op = "args"
    /\ Len(call.period.daysOfWeek) = 1
    /\ \E conflicts \in ServiceConflicts(SingleDayPeriod(call.period), call.breakTimes) :
          call' = [op |-> "checkAvailability", variant |-> "service",
                   period |-> call.period, breakTimes |-> call.breakTimes,
                   result |-> AvailabilityCheck(conflicts)]
    /\ UNCHANGED <<dbVars, submissions, activities, view, inflight>>

NextAvail ==
    CheckAvailabilityMultiDay \/ CheckAvailabilitySingleDay \/ ServiceCheckAvailability

SpecAvail == InitAvail /\ [][NextAvail]_vars

Range(seq) == { seq[i] : i \in 1..Len(seq) }

ConflictTypes(result) == { c.type : c \in Range(result.conflicts) }

Ok == [kind |-> "ok", code |-> None, message |-> None, cause |-> None]

\* new TRPCError({ code, message, cause })
TRPCError(code, message, cause) ==
    [kind |-> "TRPCError", code |-> code, message |-> message, cause |-> cause]

\* an error thrown by the persistence client: not a TRPCError
StoreError(operation) ==
    [kind |-> "Error", code |-> None, message |-> operation, cause |-> None]

(***************************************************************************)
(* Bounds and inputs of the timetable router.                              *)
(***************************************************************************)
MaxTimetables == 2
MaxPeriods == 2
MaxInputPeriods == 1
MaxUpdatePeriods == 2

ClassIds == {"c1", "c2"}
ClassGroupIds == {"g1", "g2"}
TermIds == {"t1", "t2"}

\* durationInMinutes left out of the input (undefined); a given value is >= 1
Absent == 0

\* z.number()...default(45), and the handler's `?? 45`
DefaultDuration(d) == IF d = Absent THEN 45 ELSE d

\* the i-th smallest element of a set of numbers
NthSmallest(S, i) == CHOOSE x \in S : Cardinality({ y \in S : y < x }) = i - 1

\* ids the store generates for new rows: ids no stored row has
FreeTimetableIds == (1..MaxTimetables) \ { t.id : t \in timetables }

\* period ids: enough of them for a call to replace every stored period by
\* rows whose ids were not in use when the call began
PeriodIdPool == 1..(2 * MaxPeriods)

FreePeriodIds(stored) == PeriodIdPool \ { p.id : p \in stored }

\* periods of a timetableInputSchema value: HH:mm strings, teacherId a profile id
TimetablePeriodInputs ==
    { [startTime |-> HHmm(9, 0), endTime |-> HHmm(10, 0), dayOfWeek |-> 1,
       subjectId |-> "s1", teacherId |-> "tp1", classroomId |-> "r1",
       durationInMinutes |-> Absent] }

TimetableBreakInputs ==
    { [startTime |-> HHmm(10, 0), endTime |-> HHmm(10, 15), type |-> "SHORT_BREAK",
       dayOfWeek |-> 1] }

SeqsUpTo(S, n) == UNION { [1..k -> S] : k \in 0..n }

TimetableInputs ==
    [classId : ClassIds, classGroupId : ClassGroupIds, termId : TermIds,
     periods : SeqsUpTo(TimetablePeriodInputs, MaxInputPeriods),
     breakTimes : SeqsUpTo(TimetableBreakInputs, 1)]

\* where the persistence client can fail during create
CreateFailurePoints ==
    {"none", "timetable.findFirst", "timetable.create", "period.createMany",
     "$executeRaw", "timetable.findUnique"}

(***************************************************************************)
(* TimetableService.createTimetable: timetable row, then periods, then     *)
(* break times, then the re-read; each step its own statement.             *)
(***************************************************************************)
CreateTimetableRows(input, id) ==
    [timetable |-> [id |-> id, classId |-> input.classId,
                    classGroupId |-> input.classGroupId, termId |-> input.termId],
     periods |-> { [id |-> NthSmallest(FreePeriodIds(periods), i),
                    timetableId |-> id,
                    startTime |-> ToDate(input.periods[i].startTime),
                    endTime |-> ToDate(input.periods[i].endTime),
                    dayOfWeek |-> input.periods[i].dayOfWeek,
                    durationInMinutes |-> DefaultDuration(input.periods[i].durationInMinutes),
                    subjectId |-> input.periods[i].subjectId,
                    teacherId |-> input.periods[i].teacherId,
                    classroomId |-> input.periods[i].classroomId] :
                  i \in 1..Len(input.periods) },
     breakTimes |-> { [id |-> <<id, i>>,
                       startTime |-> input.breakTimes[i].startTime,
                       endTime |-> input.breakTimes[i].endTime,
                       type |-> input.breakTimes[i].type,
                       dayOfWeek |-> input.breakTimes[i].dayOfWeek,
                       timetableId |-> id] :
                     i \in 1..Len(input.breakTimes) }]

\* a plausible slip: the three writes read as one transaction, rolled back
\* when a statement fails
ServiceCreateTimetable_Transaction(input, fail) ==
    LET id == NthSmallest(FreeTimetableIds, 1)
        rows == CreateTimetableRows(input, id)
        done == fail \in {"none", "timetable.findUnique"}
    IN  [timetables |-> IF done THEN timetables \cup {rows.timetable} ELSE timetables,
         periods |-> IF done THEN periods \cup rows.periods ELSE periods,
         breakTimes |-> IF done THEN breakTimes \cup rows.breakTimes ELSE breakTimes,
         error |-> IF fail = "none" THEN Ok ELSE StoreError(fail),
         id |-> IF fail = "none" THEN id ELSE 0]

\* The store after createTimetable and the error it threw, when the client
\* fails at `fail`: the statements before the failing one stay written.
ServiceCreateTimetable(input, fail) ==
    LET id == NthSmallest(FreeTimetableIds, 1)
        rows == CreateTimetableRows(input, id)
        step == CASE fail = "timetable.create" -> 0
                  [] fail = "period.createMany" -> 1
                  [] fail = "$executeRaw" -> 2
                  [] OTHER -> 3
    IN  [timetables |-> IF step >= 1 THEN timetables \cup {rows.timetable} ELSE timetables,
         periods |-> IF step >= 2 THEN periods \cup rows.periods ELSE periods,
         breakTimes |-> IF step >= 3 THEN breakTimes \cup rows.breakTimes ELSE breakTimes,
         error |-> IF fail = "none" THEN Ok ELSE StoreError(fail),
         id |-> IF fail = "none" THEN id ELSE 0]

\* the bound of the model: room for the rows createTimetable writes
CreateWithinBounds(input) ==
    /\ FreeTimetableIds # {}
    /\ Cardinality(periods) + Len(input.periods) <= MaxPeriods

\* a failure point the call can meet
ServiceFailurePoint(input, fail) ==
    /\ fail \in CreateFailurePoints \ {"timetable.findFirst"}
    /\ fail = "$executeRaw" => Len(input.breakTimes) > 0

(***************************************************************************)
(* timetable.create, the variant with the existence check.                 *)
(***************************************************************************)
\* a plausible slip: AND in place of OR between class and class group
ExistingTimetables_And(input) ==
    { t \in timetables :
        /\ (t.classId = input.classId /\ t.classGroupId = input.classGroupId)
        /\ t.termId = input.termId }

\* a plausible slip: the class alone, the class group left out
ExistingTimetables_ClassOnly(input) ==
    { t \in timetables : t.classId = input.classId /\ t.termId = input.termId }

\* findFirst where (classId OR classGroupId) AND termId
ExistingTimetables(input) ==
    { t \in timetables :
        /\ (t.classId = input.classId \/ t.classGroupId = input.classGroupId)
        /\ t.termId = input.termId }

Create ==
    \E input \in TimetableInputs, fail \in CreateFailurePoints :
        \/ \* the existence query itself fails: awaited inside try, so wrapped
           /\ fail = "timetable.findFirst"
           /\ call' = [op |-> "create", input |-> input, fail |-> fail, id |-> 0,
                       error |-> TRPCError("INTERNAL_SERVER_ERROR",
                                           "Failed to create timetable",
                                           StoreError(fail).message)]
           /\ UNCHANGED <<dbVars, submissions, activities, view, inflight>>
        \/ \* a timetable exists: the TRPCError is caught and re-thrown
           /\ fail = "none"
           /\ ExistingTimetables(input) # {}
           /\ call' = [op |-> "create", input |-> input, fail |-> fail, id |-> 0,
                       error |-> TRPCError("CONFLICT",
                           "A timetable already exists for this class in the selected term",
                           None)]
           /\ UNCHANGED <<dbVars, submissions, activities, view, inflight>>
        \/ \* `return timetableService.createTimetable(input)`: the promise is
           \* returned without await, so its rejection passes by the catch block
           /\ ServiceFailurePoint(input, fail)
           /\ ExistingTimetables(input) = {}
           /\ CreateWithinBounds(input)
           /\ LET r == ServiceCreateTimetable(input, fail) IN
                /\ timetables' = r.timetables
                /\ periods' = r.periods
                /\ breakTimes' = r.breakTimes
                /\ call' = [op |-> "create", input |-> input, fail |-> fail,
                            id |-> r.id, error |-> r.error]
           /\ UNCHANGED <<submissions, activities, view, inflight>>

(***************************************************************************)
(* timetable.update (the same code in both router variants).               *)
(***************************************************************************)
\* entries of update's `periods`: Date times, teacherId a user id
UpdatePeriodEntries ==
    { [startTime |-> ToDate(HHmm(9, 0)), endTime |-> ToDate(HHmm(10, 0)),
       dayOfWeek |-> 1, subjectId |-> "s1", classroomId |-> "r1",
       teacherId |-> "u1", durationInMinutes |-> Absent],
      [startTime |-> ToDate(HHmm(10, 0)), endTime |-> ToDate(HHmm(11, 0)),
       dayOfWeek |-> 1, subjectId |-> "s1", classroomId |-> "r1",
       teacherId |-> "u2", durationInMinutes |-> 60],
      [startTime |-> ToDate(HHmm(9, 0)), endTime |-> ToDate(HHmm(10, 0)),
       dayOfWeek |-> 2, subjectId |-> "s1", classroomId |-> "r2",
       teacherId |-> "u3", durationInMinutes |-> Absent] }

UpdateInputs ==
    [id : 1..MaxTimetables, periods : SeqsUpTo(UpdatePeriodEntries, MaxUpdatePeriods)]

\* a plausible slip: the profiles resolved first, the deleteMany not yet run
DeleteManyOfTimetable_NotYet(stored, timetableId) == stored

\* period.deleteMany({ where: { timetableId } }): the rows left
DeleteManyOfTimetable(stored, timetableId) ==
    { p \in stored : p.timetableId # timetableId }

\* a plausible slip: the ids and rows computed without the deleteMany
UpdateCreatedPeriods_KeepOld(input, kept) ==
    { [id |-> NthSmallest(FreePeriodIds(periods), i),
       timetableId |-> input.id,
       startTime |-> input.periods[i].startTime,
       endTime |-> input.periods[i].endTime,
       dayOfWeek |-> input.periods[i].dayOfWeek,
       durationInMinutes |-> DefaultDuration(input.periods[i].durationInMinutes),
       subjectId |-> input.periods[i].subjectId,
       teacherId |-> TeacherProfileOf(input.periods[i].teacherId),
       classroomId |-> input.periods[i].classroomId] :
     i \in 1..Len(input.periods) } \cup { p \in periods : p.timetableId = input.id }

\* the rows timetable.update's nested create writes, given the rows kept
UpdateCreatedPeriods(input, kept) ==
    { [id |-> NthSmallest(FreePeriodIds(periods), i),
       timetableId |-> input.id,
       startTime |-> input.periods[i].startTime,
       endTime |-> input.periods[i].endTime,
       dayOfWeek |-> input.periods[i].dayOfWeek,
       durationInMinutes |-> DefaultDuration(input.periods[i].durationInMinutes),
       subjectId |-> input.periods[i].subjectId,
       teacherId |-> TeacherProfileOf(input.periods[i].teacherId),
       classroomId |-> input.periods[i].classroomId] :
     i \in 1..Len(input.periods) }

Update ==
    \E input \in UpdateInputs :
        LET kept == DeleteManyOfTimetable(periods, input.id)
            unresolved == { i \in 1..Len(input.periods) :
                              TeacherProfileOf(input.periods[i].teacherId) = None }
        IN
        \/ \* a teacher without profile: Promise.all rejects, after the deleteMany
           /\ \E i \in unresolved :
                 call' = [op |-> "update", input |-> input,
                          deleted |-> Cardinality(periods) - Cardinality(kept),
                          error |-> TRPCError("NOT_FOUND",
                              <<"Teacher profile not found for teacher ID ",
                                input.periods[i].teacherId>>, None)]
           /\ periods' = kept
           /\ UNCHANGED <<timetables, breakTimes, submissions, activities, view, inflight>>
        \/ \* no such timetable: timetable.update throws
           /\ unresolved = {}
           /\ \A t \in timetables : t.id # input.id
           /\ call' = [op |-> "update", input |-> input,
                       error |-> StoreError("timetable.update")]
           /\ periods' = kept
           /\ UNCHANGED <<timetables, breakTimes, submissions, activities, view, inflight>>
        \/ /\ unresolved = {}
           /\ \E t \in timetables : t.id = input.id
           /\ Cardinality(kept) + Len(input.periods) <= MaxPeriods
           /\ periods' = kept \cup UpdateCreatedPeriods(input, kept)
           /\ call' = [op |-> "update", input |-> input, error |-> Ok]
           /\ UNCHANGED <<timetables, breakTimes, submissions, activities, view, inflight>>

(***************************************************************************)
(* createPeriod and updatePeriod, multi-day variant.                       *)
(***************************************************************************)
DayLists == { << >>, <<1>>, <<1, 2>> }

\* createPeriod / updatePeriod inputs of the multi-day variant: Date times,
\* teacherId a user id ("u3" has no teacher profile)
MultiDayPeriodInputs ==
    { [startTime |-> ToDate(iv[1]), endTime |-> ToDate(iv[2]),
       daysOfWeek |-> days, durationInMinutes |-> 60, subjectId |-> "s1",
       classroomId |-> "r1", teacherId |-> user, timetableId |-> tt, id |-> id] :
      iv \in { <<HHmm(9, 0), HHmm(10, 0)>>, <<HHmm(9, 30), HHmm(10, 30)>> },
      days \in DayLists, user \in {"u1", "u3"},
      tt \in 1..MaxTimetables, id \in PeriodIdPool }

\* one period.create per selected day, all connected to the same rows
PeriodsPerDay(input, stored, timetableId, teacherProfileId) ==
    { [id |-> NthSmallest(FreePeriodIds(stored), i),
       timetableId |-> timetableId,
       startTime |-> input.startTime,
       endTime |-> input.endTime,
       dayOfWeek |-> input.daysOfWeek[i],
       durationInMinutes |-> input.durationInMinutes,
       subjectId |-> input.subjectId,
       teacherId |-> teacherProfileId,
       classroomId |-> input.classroomId] :
     i \in 1..Len(input.daysOfWeek) }

CreatePeriodMultiDay ==
    \E input \in MultiDayPeriodInputs :
        /\ input.id = 1     \* createPeriod takes no id
        /\ LET teacherProfile == TeacherProfileOf(input.teacherId) IN
           \/ /\ teacherProfile = None
              /\ call' = [op |-> "createPeriod", input |-> input,
                          error |-> TRPCError("NOT_FOUND", "Teacher profile not found", None)]
              /\ UNCHANGED <<dbVars, submissions, activities, view, inflight>>
           \/ \* connect to a timetable that does not exist: every create rejects
              /\ teacherProfile # None
              /\ Len(input.daysOfWeek) > 0
              /\ \A t \in timetables : t.id # input.timetableId
              /\ call' = [op |-> "createPeriod", input |-> input,
                          error |-> StoreError("period.create")]
              /\ UNCHANGED <<dbVars, submissions, activities, view, inflight>>
           \/ /\ teacherProfile # None
              /\ \/ Len(input.daysOfWeek) = 0
                 \/ \E t \in timetables : t.id = input.timetableId
              /\ Cardinality(periods) + Len(input.daysOfWeek) <= MaxPeriods
              /\ periods' = periods \cup
                    PeriodsPerDay(input, periods, input.timetableId, teacherProfile)
              /\ call' = [op |-> "createPeriod", input |-> input, error |-> Ok]
              /\ UNCHANGED <<timetables, breakTimes, submissions, activities, view, inflight>>

\* (await prisma.period.findUnique({ where: { id } }))?.timetableId, evaluated
\* inside each create, that is after the delete: 0 stands for undefined
TimetableIdOfPeriod(stored, id) ==
    IF \E p \in stored : p.id = id
    THEN (CHOOSE p \in stored : p.id = id).timetableId
    ELSE 0

UpdatePeriodMultiDay ==
    \E input \in MultiDayPeriodInputs :
        /\ input.timetableId = 1     \* updatePeriod takes no timetableId
        /\ LET teacherProfile == TeacherProfileOf(input.teacherId)
               afterDelete == { p \in periods : p.id # input.id }
               timetableId == TimetableIdOfPeriod(afterDelete, input.id)
           IN
           \/ /\ teacherProfile = None
              /\ call' = [op |-> "updatePeriod", input |-> input,
                          error |-> TRPCError("NOT_FOUND", "Teacher profile not found", None)]
              /\ UNCHANGED <<dbVars, submissions, activities, view, inflight>>
           \/ \* period.delete of a row that does not exist throws
              /\ teacherProfile # None
              /\ afterDelete = periods
              /\ call' = [op |-> "updatePeriod", input |-> input,
                          error |-> StoreError("period.delete")]
              /\ UNCHANGED <<dbVars, submissions, activities, view, inflight>>
           \/ \* deleted; the creates cannot name their timetable and reject
              /\ teacherProfile # None
              /\ afterDelete # periods
              /\ Len(input.daysOfWeek) > 0
              /\ timetableId = 0
              /\ periods' = afterDelete
              /\ call' = [op |-> "updatePeriod", input |-> input,
                          error |-> StoreError("period.create")]
              /\ UNCHANGED <<timetables, breakTimes, submissions, activities, view, inflight>>
           \/ /\ teacherProfile # None
              /\ afterDelete # periods
              /\ Len(input.daysOfWeek) = 0 \/ timetableId # 0
              /\ Cardinality(afterDelete) + Len(input.daysOfWeek) <= MaxPeriods
              /\ periods' = afterDelete \cup
                    PeriodsPerDay(input, periods, timetableId, teacherProfile)
              /\ call' = [op |-> "updatePeriod", input |-> input, error |-> Ok]
              /\ UNCHANGED <<timetables, breakTimes, submissions, activities, view, inflight>>

(***************************************************************************)
(* SpecCreate: timetable.create of routers/timetable.ts over an empty      *)
(* store, calls run one after the other.                                   *)
(***************************************************************************)
InitRouter == InitStore /\ call = NoCall

NextCreate == Create

SpecCreate == InitRouter /\ [][NextCreate]_vars

\* the timetable rows of the input's class in the input's term
TimetablesOfClassInTerm(input) ==
    { t \in timetables : t.classId = input.classId /\ t.termId = input.termId }

\* C1: a create whose class already has a timetable in the input term, the
\* store answering its queries, fails with CONFLICT 'A timetable already exists
\* for this class in the selected term' and writes nothing; so in every state
\* reached by create calls there is at most one timetable per (class, term).
C1_OneTimetablePerClassTerm ==
    [][ /\ \A t1, t2 \in timetables' :
              (t1.classId = t2.classId /\ t1.termId = t2.termId) => t1 = t2
        /\ (/\ call'.op = "create"
            /\ call'.fail = "none"
            /\ TimetablesOfClassInTerm(call'.input) # {})
           => /\ call'.error = TRPCError("CONFLICT",
                    "A timetable already exists for this class in the selected term", None)
              /\ UNCHANGED <<dbVars, view, inflight>>
      ]_vars

\* a refused create: the class has a timetable in the term, and a second
\* timetable of the same class sits in the other term
C1_Witness ==
    /\ call.op = "create"
    /\ call.error.code = "CONFLICT"
    /\ TimetablesOfClassInTerm(call.input) # {}
    /\ \E t1, t2 \in timetables : t1.classId = t2.classId /\ t1.termId # t2.termId

\* C9: every create that fails on something other than a classified error
\* (a failure of the persistence client, inside createTimetable included)
\* ends with INTERNAL_SERVER_ERROR 'Failed to create timetable' carrying the
\* cause, and the CONFLICT of the pre-check is re-thrown unchanged.
C9_FailuresWrapped ==
    call.op = "create" =>
        /\ call.fail # "none" =>
              call.error = TRPCError("INTERNAL_SERVER_ERROR", "Failed to create timetable",
                                     StoreError(call.fail).message)
        /\ (call.fail = "none" /\ call.error.kind # "ok") =>
              call.error = TRPCError("CONFLICT",
                  "A timetable already exists for this class in the selected term", None)

\* a persistence failure inside createTimetable reaching the caller as it was thrown
C9_Witness ==
    /\ call.op = "create"
    /\ call.fail = "period.createMany"
    /\ call.error.kind = "Error"

(***************************************************************************)
(* SpecMultiDay: update, createPeriod and updatePeriod of                  *)
(* routers/timetable.ts over a store that holds two timetables (as two     *)
(* create calls with no periods leave it).                                 *)
(***************************************************************************)
SeedTimetables ==
    { [id |-> 1, classId |-> "c1", classGroupId |-> "g1", termId |-> "t1"],
      [id |-> 2, classId |-> "c2", classGroupId |-> "g2", termId |-> "t1"] }

InitMultiDay ==
    /\ timetables \in { SeedTimetables, { t \in SeedTimetables : t.id = 1 } }
    /\ periods = {}
    /\ breakTimes = {}
    /\ submissions = << >>
    /\ activities = {}
    /\ view = NoView
    /\ inflight = {}
    /\ call = NoCall

NextMultiDay == Update \/ CreatePeriodMultiDay \/ UpdatePeriodMultiDay

SpecMultiDay == InitMultiDay /\ [][NextMultiDay]_vars

\* two stored periods on the same day-of-week whose time ranges overlap
PeriodsOverlap(p, q) ==
    /\ p.dayOfWeek = q.dayOfWeek
    /\ p.startTime < q.endTime
    /\ p.endTime > q.startTime

\* C2: no two stored periods that share a teacher or share a classroom have
\* overlapping time ranges on the same day-of-week, in every state the
\* period-writing operations reach.
C2_NoOverlappingPeriods ==
    \A p, q \in periods :
        (p.id # q.id /\ (p.teacherId = q.teacherId \/ p.classroomId = q.classroomId))
            => ~PeriodsOverlap(p, q)

\* the stored period with this id
PeriodById(id) == CHOOSE p \in periods : p.id = id

\* the row createPeriod / updatePeriod stores for day d of the input
IsPeriodOfDay(q, input, d, timetableId) ==
    /\ q.timetableId = timetableId
    /\ q.dayOfWeek = d
    /\ q.startTime = input.startTime
    /\ q.endTime = input.endTime
    /\ q.subjectId = input.subjectId
    /\ q.classroomId = input.classroomId
    /\ q.teacherId = TeacherProfileOf(input.teacherId)

\* C7: updatePeriod (multi-day) on a stored period p of timetable T, with a
\* teacher id that has a profile and day list D, completes; afterwards p is
\* gone and T holds one new period per day of D with the input's times,
\* subject, classroom and the resolved teacher profile.
C7_UpdatePeriodReplaces ==
    [][ (/\ call'.op = "updatePeriod"
         /\ TeacherProfileOf(call'.input.teacherId) # None
         /\ \E p \in periods : p.id = call'.input.id)
        => LET input == call'.input
               T == PeriodById(input.id).timetableId
               created == { q \in periods' : \A p \in periods : p.id # q.id }
           IN  /\ call'.error.kind = "ok"
               /\ \A q \in periods' : q.id # input.id
               /\ Cardinality(created) = Len(input.daysOfWeek)
               /\ \A i \in 1..Len(input.daysOfWeek) :
                     \E q \in created : IsPeriodOfDay(q, input, input.daysOfWeek[i], T)
      ]_vars

\* the row timetable.update stores for an entry of its input
IsStoredEntry(q, entry, timetableId) ==
    /\ q.timetableId = timetableId
    /\ q.startTime = entry.startTime
    /\ q.endTime = entry.endTime
    /\ q.dayOfWeek = entry.dayOfWeek
    /\ q.subjectId = entry.subjectId
    /\ q.classroomId = entry.classroomId
    /\ q.teacherId = TeacherProfileOf(entry.teacherId)
    /\ q.durationInMinutes =
          (IF entry.durationInMinutes = Absent THEN 45 ELSE entry.durationInMinutes)

\* C10: timetable.update(id, periods) on a stored timetable, every teacher id
\* having a profile, completes; afterwards the timetable's periods are one
\* stored period per input entry and nothing else (no period it had before is
\* left), each with the resolved teacher-profile id, and with
\* durationInMinutes 45 where the entry gave none.
C10_UpdateReplacesPeriods ==
    [][ (/\ call'.op = "update"
         /\ \A i \in 1..Len(call'.input.periods) :
               TeacherProfileOf(call'.input.periods[i].teacherId) # None
         /\ \E t \in timetables : t.id = call'.input.id)
        => LET input == call'.input
               n == Len(input.periods)
               rows == { q \in periods' : q.timetableId = input.id }
           IN  /\ call'.error.kind = "ok"
               /\ \A p \in periods : p.timetableId = input.id =>
                     \A q \in periods' : q.id # p.id
               /\ Cardinality(rows) = n
               /\ \E f \in [1..n -> rows] :
                     /\ \A i, j \in 1..n : i # j => f[i] # f[j]
                     /\ \A i \in 1..n : IsStoredEntry(f[i], input.periods[i], input.id)
               /\ \A q \in periods' : q.timetableId # input.id => q \in periods
      ]_vars

\* an update with two entries done on a timetable that held two other periods:
\* one entry without duration stored with 45, both stored under their
\* teachers' profile ids
C10_Witness ==
    /\ call.op = "update"
    /\ call.error.kind = "ok"
    /\ Len(call.input.periods) = 2
    /\ call.input.periods[1].durationInMinutes = Absent
    /\ call.input.periods[1].teacherId # call.input.periods[2].teacherId
    /\ periods # {}
    /\ \A q \in periods : q.id > MaxPeriods    \* the ids in use before are gone
    /\ LET rows == { q \in periods : q.timetableId = call.input.id } IN
          /\ Cardinality(rows) = 2
          /\ \E q \in rows : q.durationInMinutes = 45 /\ q.teacherId = "tp1"
          /\ \E q \in rows : q.durationInMinutes = 60 /\ q.teacherId = "tp2"

(***************************************************************************)
(* SpecSingleDay: createPeriod and updatePeriod of the single-day router   *)
(* variant, over a store that holds two timetables.                        *)
(***************************************************************************)
SingleDayPeriodInputs ==
    { [startTime |-> ToDate(iv[1]), endTime |-> ToDate(iv[2]),
       dayOfWeek |-> d, durationInMinutes |-> 60, subjectId |-> "s1",
       classroomId |-> room, teacherId |-> user, timetableId |-> tt, id |-> id] :
      iv \in { <<HHmm(9, 0), HHmm(10, 0)>>, <<HHmm(10, 0), HHmm(11, 0)>>,
               <<HHmm(11, 0), HHmm(12, 0)>> },
      d \in DaysOfWeek, room \in ClassroomIds, user \in {"u1", "u3"},
      tt \in 1..MaxTimetables, id \in PeriodIdPool }

\* a plausible slip: the conflict query read as limited to the input's day
ExistingPeriods_SameDay(input, teacherKey, exceptId) ==
    { p \in periods :
        /\ p.id # exceptId
        /\ p.dayOfWeek = input.dayOfWeek
        /\ \/ p.teacherId = teacherKey
           \/ p.classroomId = input.classroomId
        /\ p.startTime <= input.endTime
        /\ p.endTime >= input.startTime }

\* period.findFirst of the conflict check: the rows other than `exceptId` with
\* teacher.id = teacherKey or the input's classroom, and start <= input end,
\* end >= input start; the query has no day-of-week condition
ExistingPeriods(input, teacherKey, exceptId) ==
    { p \in periods :
        /\ p.id # exceptId
        /\ \/ /\ p.teacherId = teacherKey
              /\ p.startTime <= input.endTime
              /\ p.endTime >= input.startTime
           \/ /\ p.classroomId = input.classroomId
              /\ p.startTime <= input.endTime
              /\ p.endTime >= input.startTime }

ScheduleConflict == TRPCError("CONFLICT", "Schedule conflict detected", None)

CreatePeriodSingleDay ==
    \E input \in SingleDayPeriodInputs :
        /\ input.id = 1     \* createPeriod takes no id
        /\ LET teacherProfile == TeacherProfileOf(input.teacherId)
               \* teacher: { id: input.teacherId }: the user id given as profile id
               existingPeriod == ExistingPeriods(input, input.teacherId, 0)
           IN
           \/ /\ existingPeriod # {}
              /\ call' = [op |-> "createPeriod", input |-> input, error |-> ScheduleConflict]
              /\ UNCHANGED <<dbVars, submissions, activities, view, inflight>>
           \/ /\ existingPeriod = {}
              /\ teacherProfile = None
              /\ call' = [op |-> "createPeriod", input |-> input,
                          error |-> TRPCError("NOT_FOUND", "Teacher profile not found", None)]
              /\ UNCHANGED <<dbVars, submissions, activities, view, inflight>>
           \/ /\ existingPeriod = {}
              /\ teacherProfile # None
              /\ \A t \in timetables : t.id # input.timetableId
              /\ call' = [op |-> "createPeriod", input |-> input,
                          error |-> StoreError("period.create")]
              /\ UNCHANGED <<dbVars, submissions, activities, view, inflight>>
           \/ /\ existingPeriod = {}
              /\ teacherProfile # None
              /\ \E t \in timetables : t.id = input.timetableId
              /\ Cardinality(periods) < MaxPeriods
              /\ periods' = periods \cup
                    { [id |-> NthSmallest(FreePeriodIds(periods), 1),
                       timetableId |-> input.timetableId,
                       startTime |-> input.startTime,
                       endTime |-> input.endTime,
                       dayOfWeek |-> input.dayOfWeek,
                       durationInMinutes |-> input.durationInMinutes,
                       subjectId |-> input.subjectId,
                       teacherId |-> teacherProfile,
                       classroomId |-> input.classroomId] }
              /\ call' = [op |-> "createPeriod", input |-> input, error |-> Ok]
              /\ UNCHANGED <<timetables, breakTimes, submissions, activities, view, inflight>>

UpdatePeriodSingleDay ==
    \E input \in SingleDayPeriodInputs :
        /\ input.timetableId = 1     \* updatePeriod takes no timetableId
        /\ LET teacherProfile == TeacherProfileOf(input.teacherId)
               existingPeriod == ExistingPeriods(input, teacherProfile, input.id)
           IN
           \/ /\ teacherProfile = None
              /\ call' = [op |-> "updatePeriod", input |-> input,
                          error |-> TRPCError("NOT_FOUND", "Teacher profile not found", None)]
              /\ UNCHANGED <<dbVars, submissions, activities, view, inflight>>
           \/ /\ teacherProfile # None
              /\ existingPeriod # {}
              /\ call' = [op |-> "updatePeriod", input |-> input, error |-> ScheduleConflict]
              /\ UNCHANGED <<dbVars, submissions, activities, view, inflight>>
           \/ \* period.update of a row that does not exist throws
              /\ teacherProfile # None
              /\ existingPeriod = {}
              /\ \A p \in periods : p.id # input.id
              /\ call' = [op |-> "updatePeriod", input |-> input,
                          error |-> StoreError("period.update")]
              /\ UNCHANGED <<dbVars, submissions, activities, view, inflight>>
           \/ /\ teacherProfile # None
              /\ existingPeriod = {}
              /\ \E p \in periods : p.id = input.id
              /\ periods' = { IF p.id = input.id
                              THEN [id |-> p.id,
                                    timetableId |-> p.timetableId,
                                    startTime |-> input.startTime,
                                    endTime |-> input.endTime,
                                    dayOfWeek |-> input.dayOfWeek,
                                    durationInMinutes |-> input.durationInMinutes,
                                    subjectId |-> input.subjectId,
                                    teacherId |-> teacherProfile,
                                    classroomId |-> input.classroomId]
                              ELSE p : p \in periods }
              /\ call' = [op |-> "updatePeriod", input |-> input, error |-> Ok]
              /\ UNCHANGED <<timetables, breakTimes, submissions, activities, view, inflight>>

NextSingleDay == CreatePeriodSingleDay \/ UpdatePeriodSingleDay

SpecSingleDay == InitMultiDay /\ [][NextSingleDay]_vars

\* C6: createPeriod and updatePeriod with a teacher id that has no teacher
\* profile fail with NOT_FOUND and leave the stored periods as they were.
C6_NoProfileNotFound ==
    [][ (/\ call'.op \in {"createPeriod", "updatePeriod"}
         /\ TeacherProfileOf(call'.input.teacherId) = None)
        => /\ call'.error.code = "NOT_FOUND"
           /\ periods' = periods
      ]_vars

(***************************************************************************)
(* SpecGrade: the three gradeSubmission handlers over stored submissions.  *)
(***************************************************************************)
MaxSubmissions == 2

SessionUserIds == {"u1", "u2"}

\* an activity without configuration; a configured passingMarks is >= 1
NoConfiguration == 0

ObtainedMarksInputs == {39, 40, 41}

\* submitActivity's row, joined with the passingMarks of its activity
Submission(passingMarks) ==
    [passingMarks |-> passingMarks, status |-> "SUBMITTED", totalMarks |-> 0,
     obtainedMarks |-> 0, isPassing |-> FALSE, feedback |-> None,
     gradedAt |-> None, gradedBy |-> None]

InitGrade ==
    /\ timetables = {}
    /\ periods = {}
    /\ breakTimes = {}
    /\ submissions = << Submission(40), Submission(NoConfiguration) >>
    /\ activities = {}
    /\ view = NoView
    /\ inflight = {}
    /\ call = NoCall

GradeInputs ==
    [submissionId : 1..(MaxSubmissions + 1), obtainedMarks : ObtainedMarksInputs,
     totalMarks : {100}, isPassing : BOOLEAN, feedback : {"good"}]

\* the clock is left out: a gradedAt that was set reads "now"
Graded(submission, input, isPassing, gradedBy) ==
    [passingMarks |-> submission.passingMarks, status |-> "GRADED",
     totalMarks |-> submission.totalMarks, obtainedMarks |-> input.obtainedMarks,
     isPassing |-> isPassing, feedback |-> input.feedback,
     gradedAt |-> "now", gradedBy |-> gradedBy]

\* routers/class-activity.ts: the configuration is a related row
GradeSubmission ==
    \E input \in GradeInputs, user \in SessionUserIds :
        /\ input.isPassing = FALSE     \* the input has no isPassing
        /\ \/ /\ \/ input.submissionId > Len(submissions)
                 \/ /\ input.submissionId <= Len(submissions)
                    /\ submissions[input.submissionId].passingMarks = NoConfiguration
              /\ call' = [op |-> "gradeSubmission", variant |-> "relation",
                          input |-> input, user |-> user,
                          error |-> TRPCError("NOT_FOUND",
                              "Submission or activity configuration not found", None)]
              /\ UNCHANGED <<dbVars, submissions, activities, view, inflight>>
           \/ /\ input.submissionId <= Len(submissions)
              /\ submissions[input.submissionId].passingMarks # NoConfiguration
              /\ LET submission == submissions[input.submissionId]
                     isPassing == input.obtainedMarks >= submission.passingMarks
                 IN  submissions' = [submissions EXCEPT ![input.submissionId] =
                                        Graded(submission, input, isPassing, user)]
              /\ call' = [op |-> "gradeSubmission", variant |-> "relation",
                          input |-> input, user |-> user, error |-> Ok]
              /\ UNCHANGED <<dbVars, activities, view, inflight>>

\* the first handler of part_005: isPassing and totalMarks come with the input
GradeSubmissionFirst ==
    \E input \in GradeInputs, user \in SessionUserIds :
        \/ \* activitySubmission.update of a row that does not exist throws
           /\ input.submissionId > Len(submissions)
           /\ call' = [op |-> "gradeSubmission", variant |-> "first",
                       input |-> input, user |-> user,
                       error |-> StoreError("activitySubmission.update")]
           /\ UNCHANGED <<dbVars, submissions, activities, view, inflight>>
        \/ /\ input.submissionId <= Len(submissions)
           /\ LET submission == submissions[input.submissionId] IN
              submissions' = [submissions EXCEPT ![input.submissionId] =
                  [passingMarks |-> submission.passingMarks, status |-> "GRADED",
                   totalMarks |-> input.totalMarks, obtainedMarks |-> input.obtainedMarks,
                   isPassing |-> input.isPassing, feedback |-> input.feedback,
                   gradedAt |-> "now", gradedBy |-> submission.gradedBy]]
           /\ call' = [op |-> "gradeSubmission", variant |-> "first",
                       input |-> input, user |-> user, error |-> Ok]
           /\ UNCHANGED <<dbVars, activities, view, inflight>>

\* the second handler of part_005: the configuration is a JSON value
GradeSubmissionJson ==
    \E input \in GradeInputs, user \in SessionUserIds :
        /\ input.isPassing = FALSE     \* the input has no isPassing
        /\ \/ /\ input.submissionId > Len(submissions)
              /\ call' = [op |-> "gradeSubmission", variant |-> "json",
                          input |-> input, user |-> user,
                          error |-> TRPCError("NOT_FOUND", "Submission not found", None)]
              /\ UNCHANGED <<dbVars, submissions, activities, view, inflight>>
           \/ \* config is null: reading config.passingMarks throws a TypeError
              /\ input.submissionId <= Len(submissions)
              /\ submissions[input.submissionId].passingMarks = NoConfiguration
              /\ call' = [op |-> "gradeSubmission", variant |-> "json",
                          input |-> input, user |-> user,
                          error |-> StoreError("TypeError")]
              /\ UNCHANGED <<dbVars, submissions, activities, view, inflight>>
           \/ /\ input.submissionId <= Len(submissions)
              /\ submissions[input.submissionId].passingMarks # NoConfiguration
              /\ LET submission == submissions[input.submissionId]
                     isPassing == input.obtainedMarks >= submission.passingMarks
                 IN  submissions' = [submissions EXCEPT ![input.submissionId] =
                                        Graded(submission, input, isPassing, user)]
              /\ call' = [op |-> "gradeSubmission", variant |-> "json",
                          input |-> input, user |-> user, error |-> Ok]
              /\ UNCHANGED <<dbVars, activities, view, inflight>>

NextGrade == GradeSubmission \/ GradeSubmissionFirst \/ GradeSubmissionJson

SpecGrade == InitGrade /\ [][NextGrade]_vars

\* C8: after gradeSubmission on an existing submission of a configured
\* activity, the submission's isPassing is (obtainedMarks >= passingMarks),
\* true at equality, its status is GRADED and its gradedBy is the acting user:
\* the flag is the server's computation, whatever the caller sent.
C8_PassingComputedByServer ==
    (/\ call.op = "gradeSubmission"
     /\ call.input.submissionId <= Len(submissions)
     /\ submissions[call.input.submissionId].passingMarks # NoConfiguration)
    => LET submission == submissions[call.input.submissionId] IN
          /\ call.error.kind = "ok"
          /\ submission.obtainedMarks = call.input.obtainedMarks
          /\ submission.isPassing = (call.input.obtainedMarks >= submission.passingMarks)
          /\ submission.status = "GRADED"
          /\ submission.gradedBy = call.user

\* the first handler stores the caller's flag: marks at the pass mark, stored as failing
C8_Witness ==
    /\ call.op = "gradeSubmission"
    /\ call.variant = "first"
    /\ call.input.submissionId = 1
    /\ call.input.obtainedMarks = submissions[1].passingMarks
    /\ submissions[1].obtainedMarks = call.input.obtainedMarks
    /\ submissions[1].isPassing = FALSE

(***************************************************************************)
(* SpecSchedule: getTeacherSchedule and getClassroomSchedule over the      *)
(* stores that create calls leave.                                         *)
(***************************************************************************)
ScheduleInputs ==
    [teacherId : TeacherProfileIds, classroomId : ClassroomIds, termId : TermIds]

ScheduleFailurePoints == {"none", "$queryRaw", "period.findMany"}

\* SELECT bt.* FROM break_times bt JOIN timetables t JOIN periods p WHERE
\* t.termId = termId AND p.<column> = key: the rows are break_times rows
BreakTimeRowsOfTerm(termId, column, key) ==
    { b \in breakTimes :
        \E t \in timetables, p \in periods :
            /\ t.id = b.timetableId
            /\ p.timetableId = t.id
            /\ t.termId = termId
            /\ p[column] = key }

\* timetables[0]?.breakTimes ?? []: the property `breakTimes` of the first row
FirstRowBreakTimes(rows) ==
    IF rows = {} THEN { << >> }
    ELSE { IF "breakTimes" \in DOMAIN row THEN row["breakTimes"] ELSE << >> :
           row \in rows }

\* orderBy: [{ dayOfWeek: 'asc' }, { startTime: 'asc' }]
OrderedBefore(p, q) ==
    \/ p.dayOfWeek < q.dayOfWeek
    \/ p.dayOfWeek = q.dayOfWeek /\ p.startTime <= q.startTime

\* period.findMany with that orderBy: the orders the store may return
FindManyOrdered(rows) ==
    { s \in [1..Cardinality(rows) -> rows] :
        /\ \A i, j \in 1..Cardinality(rows) : i # j => s[i] # s[j]
        /\ \A i, j \in 1..Cardinality(rows) : i < j => OrderedBefore(s[i], s[j]) }

\* the body shared by the two schedule queries
GetSchedule(op, column, key, input, fail, message) ==
    \/ /\ fail # "none"
       /\ call' = [op |-> op, input |-> input, key |-> key,
                   error |-> TRPCError("INTERNAL_SERVER_ERROR", message,
                                       StoreError(fail).message),
                   result |-> [periods |-> << >>, breakTimes |-> << >>]]
       /\ UNCHANGED <<dbVars, submissions, activities, view, inflight>>
    \/ /\ fail = "none"
       /\ \E bts \in FirstRowBreakTimes(BreakTimeRowsOfTerm(input.termId, column, key)),
             ps \in FindManyOrdered({ p \in periods :
                       /\ p[column] = key
                       /\ \E t \in timetables :
                             t.id = p.timetableId /\ t.termId = input.termId }) :
             call' = [op |-> op, input |-> input, key |-> key, error |-> Ok,
                      result |-> [periods |-> ps, breakTimes |-> bts]]
       /\ UNCHANGED <<dbVars, submissions, activities, view, inflight>>

GetTeacherSchedule ==
    \E input \in ScheduleInputs, fail \in ScheduleFailurePoints :
        /\ input.classroomId = "r1"     \* the input has no classroomId
        /\ GetSchedule("getTeacherSchedule", "teacherId", input.teacherId, input, fail,
                       "Failed to fetch teacher schedule")

GetClassroomSchedule ==
    \E input \in ScheduleInputs, fail \in ScheduleFailurePoints :
        /\ input.teacherId = "tp1"     \* the input has no teacherId
        /\ GetSchedule("getClassroomSchedule", "classroomId", input.classroomId, input, fail,
                       "Failed to fetch classroom schedule")

NextSchedule == Create \/ GetTeacherSchedule \/ GetClassroomSchedule

SpecSchedule == InitRouter /\ [][NextSchedule]_vars

IsScheduleCall == call.op \in {"getTeacherSchedule", "getClassroomSchedule"}

\* the stored break times of the timetables of the call's term that hold a
\* period of the call's teacher (classroom)
ScheduleBreakTimes ==
    { b \in breakTimes :
        \E t \in timetables, p \in periods :
            /\ t.id = b.timetableId /\ t.termId = call.input.termId
            /\ p.timetableId = t.id
            /\ IF call.op = "getTeacherSchedule"
               THEN p.teacherId = call.input.teacherId
               ELSE p.classroomId = call.input.classroomId }

\* C11: a schedule query that completes returns, in breakTimes, every stored
\* break time of the timetables of the term that hold a period of the teacher
\* (classroom).
C11_ScheduleHasBreakTimes ==
    (IsScheduleCall /\ call.error.kind = "ok")
        => \A b \in ScheduleBreakTimes : b \in Range(call.result.breakTimes)

\* a completed teacher query with a period returned, a matching break time
\* stored, and an empty breakTimes list
C11_Witness ==
    /\ call.op = "getTeacherSchedule"
    /\ call.error.kind = "ok"
    /\ Len(call.result.periods) > 0
    /\ ScheduleBreakTimes # {}
    /\ call.result.breakTimes = << >>

(***************************************************************************)
(* SpecActivity: classActivity.create, classActivity.update and the three  *)
(* submitActivity handlers.                                                *)
(***************************************************************************)
MaxActivities == 2
MaxSubmitted == 1

GradingTypes == {"AUTOMATIC", "MANUAL"}

\* z.number().min(1): 0 stands for the values the schema refuses
TotalMarksInputs == {1, 2}
PassingMarksInputs == {0, 1, 2}

\* an activity row without a configuration row
NoConfig == [totalMarks |-> 0, passingMarks |-> 0, gradingType |-> None]

ConfigurationInputs ==
    [totalMarks : TotalMarksInputs, passingMarks : PassingMarksInputs,
     gradingType : GradingTypes]

ActivityInputs ==
    [id : 1..MaxActivities, title : {"Quiz"}, classId : {"c1"},
     type : {"QUIZ_MULTIPLE_CHOICE"}, configuration : ConfigurationInputs]

\* the configuration schema: totalMarks and passingMarks each at least 1
ConfigurationAccepted(configuration) ==
    /\ configuration.totalMarks >= 1
    /\ configuration.passingMarks >= 1

\* the failure of a procedure's input schema
BadRequest == TRPCError("BAD_REQUEST", "Input validation failed", None)

FreeActivityIds == (1..MaxActivities) \ { a.id : a \in activities }

InitActivity ==
    /\ timetables = {}
    /\ periods = {}
    /\ breakTimes = {}
    /\ submissions = << >>
    /\ activities \in { {},
                        { [id |-> 1, title |-> "Reading", classId |-> "c1",
                           type |-> "READING", configuration |-> NoConfig] } }
    /\ view = NoView
    /\ inflight = {}
    /\ call = NoCall

CreateActivity ==
    \E input \in ActivityInputs :
        /\ input.id = 1     \* create takes no id
        /\ \/ /\ ~ConfigurationAccepted(input.configuration)
              /\ call' = [op |-> "classActivity.create", input |-> input, error |-> BadRequest]
              /\ UNCHANGED <<dbVars, submissions, activities, view, inflight>>
           \/ /\ ConfigurationAccepted(input.configuration)
              /\ FreeActivityIds # {}
              /\ activities' = activities \cup
                    { [id |-> NthSmallest(FreeActivityIds, 1), title |-> input.title,
                       classId |-> input.classId, type |-> input.type,
                       configuration |-> input.configuration] }
              /\ call' = [op |-> "classActivity.create", input |-> input, error |-> Ok]
              /\ UNCHANGED <<dbVars, submissions, view, inflight>>

UpdateActivity ==
    \E input \in ActivityInputs :
        \/ /\ ~ConfigurationAccepted(input.configuration)
           /\ call' = [op |-> "classActivity.update", input |-> input, error |-> BadRequest]
           /\ UNCHANGED <<dbVars, submissions, activities, view, inflight>>
        \/ \* no such row, or the store refuses the data: classActivity.update throws
           /\ ConfigurationAccepted(input.configuration)
           /\ call' = [op |-> "classActivity.update", input |-> input,
                       error |-> StoreError("classActivity.update")]
           /\ UNCHANGED <<dbVars, submissions, activities, view, inflight>>
        \/ /\ ConfigurationAccepted(input.configuration)
           /\ \E a \in activities : a.id = input.id
           /\ activities' = { IF a.id = input.id
                              THEN [id |-> a.id, title |-> input.title,
                                    classId |-> input.classId, type |-> input.type,
                                    configuration |-> input.configuration]
                              ELSE a : a \in activities }
           /\ call' = [op |-> "classActivity.update", input |-> input, error |-> Ok]
           /\ UNCHANGED <<dbVars, submissions, view, inflight>>

SubmitInputs ==
    [activityId : 1..(MaxActivities + 1), studentId : {"st1"}, status : {"SUBMITTED"}]

ActivityById(id) ==
    IF \E a \in activities : a.id = id
    THEN CHOOSE a \in activities : a.id = id
    ELSE [id |-> 0]

\* values of the columns a create leaves out
ColumnDefaults == [obtainedMarks |-> 0, isPassing |-> FALSE]

SubmissionRow(input, totalMarks, obtainedMarks, isPassing, gradingType) ==
    [activityId |-> input.activityId, studentId |-> input.studentId,
     status |-> input.status, submittedAt |-> "now",
     totalMarks |-> totalMarks, obtainedMarks |-> obtainedMarks,
     isPassing |-> isPassing, gradingType |-> gradingType,
     gradedAt |-> None, gradedBy |-> None]

\* routers/class-activity.ts: the configuration is a related row
SubmitActivity ==
    \E input \in SubmitInputs :
        LET activity == ActivityById(input.activityId) IN
        \/ /\ \/ activity.id = 0
              \/ activity.id # 0 /\ activity.configuration = NoConfig
           /\ call' = [op |-> "submitActivity", variant |-> "relation", input |-> input,
                       error |-> TRPCError("NOT_FOUND",
                                           "Activity or configuration not found", None)]
           /\ UNCHANGED <<dbVars, submissions, activities, view, inflight>>
        \/ /\ activity.id # 0
           /\ activity.configuration # NoConfig
           /\ Len(submissions) < MaxSubmitted
           /\ submissions' = Append(submissions,
                 SubmissionRow(input, activity.configuration.totalMarks,
                               ColumnDefaults.obtainedMarks, ColumnDefaults.isPassing,
                               activity.configuration.gradingType))
           /\ call' = [op |-> "submitActivity", variant |-> "relation", input |-> input,
                       error |-> Ok]
           /\ UNCHANGED <<dbVars, activities, view, inflight>>

\* the first handler of part_005: no lookup, fixed totalMarks and gradingType
SubmitActivityFirst ==
    \E input \in SubmitInputs :
        \/ \* connect to an activity that does not exist: the create throws
           /\ ActivityById(input.activityId).id = 0
           /\ call' = [op |-> "submitActivity", variant |-> "first", input |-> input,
                       error |-> StoreError("activitySubmission.create")]
           /\ UNCHANGED <<dbVars, submissions, activities, view, inflight>>
        \/ /\ ActivityById(input.activityId).id # 0
           /\ Len(submissions) < MaxSubmitted
           /\ submissions' = Append(submissions,
                 SubmissionRow(input, 0, 0, FALSE, "MANUAL"))
           /\ call' = [op |-> "submitActivity", variant |-> "first", input |-> input,
                       error |-> Ok]
           /\ UNCHANGED <<dbVars, activities, view, inflight>>

\* the second handler of part_005: the configuration is a JSON value
SubmitActivityJson ==
    \E input \in SubmitInputs :
        LET activity == ActivityById(input.activityId) IN
        \/ /\ activity.id = 0
           /\ call' = [op |-> "submitActivity", variant |-> "json", input |-> input,
                       error |-> TRPCError("NOT_FOUND",
                                           "Activity or configuration not found", None)]
           /\ UNCHANGED <<dbVars, submissions, activities, view, inflight>>
        \/ \* config is null: reading config.totalMarks throws a TypeError
           /\ activity.id # 0
           /\ activity.configuration = NoConfig
           /\ call' = [op |-> "submitActivity", variant |-> "json", input |-> input,
                       error |-> StoreError("TypeError")]
           /\ UNCHANGED <<dbVars, submissions, activities, view, inflight>>
        \/ /\ activity.id # 0
           /\ activity.configuration # NoConfig
           /\ Len(submissions) < MaxSubmitted
           /\ submissions' = Append(submissions,
                 SubmissionRow(input, activity.configuration.totalMarks, 0, FALSE,
                               activity.configuration.gradingType))
           /\ call' = [op |-> "submitActivity", variant |-> "json", input |-> input,
                       error |-> Ok]
           /\ UNCHANGED <<dbVars, activities, view, inflight>>

NextActivity ==
    \/ CreateActivity
    \/ UpdateActivity
    \/ SubmitActivity
    \/ SubmitActivityFirst
    \/ SubmitActivityJson

SpecActivity == InitActivity /\ [][NextActivity]_vars

\* C12: submitActivity on a missing activity, or one without configuration,
\* fails with NOT_FOUND and creates no submission; otherwise it creates one
\* submission with obtainedMarks 0, isPassing false, and totalMarks and
\* gradingType those of the activity's configuration.
C12_SubmitActivity ==
    [][ call'.op = "submitActivity" =>
          LET activity == ActivityById(call'.input.activityId) IN
          IF activity.id = 0 \/ activity.configuration = NoConfig
          THEN /\ call'.error.code = "NOT_FOUND"
               /\ submissions' = submissions
          ELSE /\ call'.error.kind = "ok"
               /\ Len(submissions') = Len(submissions) + 1
               /\ LET created == submissions'[Len(submissions')] IN
                     /\ created.activityId = call'.input.activityId
                     /\ created.obtainedMarks = 0
                     /\ created.isPassing = FALSE
                     /\ created.totalMarks = activity.configuration.totalMarks
                     /\ created.gradingType = activity.configuration.gradingType
      ]_vars

\* the first handler's submission of an AUTOMATIC activity with totalMarks 2:
\* stored with totalMarks 0 and gradingType MANUAL
C12_Witness ==
    /\ call.op = "submitActivity"
    /\ call.variant = "first"
    /\ call.error.kind = "ok"
    /\ ActivityById(call.input.activityId).configuration.totalMarks = 2
    /\ ActivityById(call.input.activityId).configuration.gradingType = "AUTOMATIC"
    /\ submissions[Len(submissions)].totalMarks = 0
    /\ submissions[Len(submissions)].gradingType = "MANUAL"

\* C13: every stored activity configuration has passingMarks <= totalMarks,
\* in every state that create and update calls with accepted inputs reach.
C13_PassingWithinTotal ==
    \A a \in activities :
        a.configuration.passingMarks <= a.configuration.totalMarks

\* an accepted create that stored passingMarks 2 against totalMarks 1
C13_Witness ==
    /\ call.op = "classActivity.create"
    /\ call.error.kind = "ok"
    /\ \E a \in activities :
          /\ a.configuration = call.input.configuration
          /\ a.configuration.totalMarks = 1
          /\ a.configuration.passingMarks = 2

(***************************************************************************)
(* seedActivities (prisma/seeds/activities.ts).                            *)
(***************************************************************************)
ActivityTypes ==
    { "QUIZ_MULTIPLE_CHOICE", "QUIZ_DRAG_DROP", "QUIZ_FILL_BLANKS",
      "QUIZ_MEMORY", "QUIZ_TRUE_FALSE", "GAME_WORD_SEARCH",
      "GAME_CROSSWORD", "GAME_FLASHCARDS", "VIDEO_YOUTUBE",
      "READING", "CLASS_ASSIGNMENT", "CLASS_PROJECT",
      "CLASS_PRESENTATION", "CLASS_TEST", "CLASS_EXAM" }

\* a type name as its sequence of characters
CharsOf(type) ==
    CASE type = "QUIZ_MULTIPLE_CHOICE" ->
           <<"Q", "U", "I", "Z", "_", "M", "U", "L", "T", "I", "P", "L", "E", "_", "C", "H", "O", "I", "C", "E">>
      [] type = "QUIZ_DRAG_DROP" ->
           <<"Q", "U", "I", "Z", "_", "D", "R", "A", "G", "_", "D", "R", "O", "P">>
      [] type = "QUIZ_FILL_BLANKS" ->
           <<"Q", "U", "I", "Z", "_", "F", "I", "L", "L", "_", "B", "L", "A", "N", "K", "S">>
      [] type = "QUIZ_MEMORY" ->
           <<"Q", "U", "I", "Z", "_", "M", "E", "M", "O", "R", "Y">>
      [] type = "QUIZ_TRUE_FALSE" ->
           <<"Q", "U", "I", "Z", "_", "T", "R", "U", "E", "_", "F", "A", "L", "S", "E">>
      [] type = "GAME_WORD_SEARCH" ->
           <<"G", "A", "M", "E", "_", "W", "O", "R", "D", "_", "S", "E", "A", "R", "C", "H">>
      [] type = "GAME_CROSSWORD" ->
           <<"G", "A", "M", "E", "_", "C", "R", "O", "S", "S", "W", "O", "R", "D">>
      [] type = "GAME_FLASHCARDS" ->
           <<"G", "A", "M", "E", "_", "F", "L", "A", "S", "H", "C", "A", "R", "D", "S">>
      [] type = "VIDEO_YOUTUBE" ->
           <<"V", "I", "D", "E", "O", "_", "Y", "O", "U", "T", "U", "B", "E">>
      [] type = "READING" ->
           <<"R", "E", "A", "D", "I", "N", "G">>
      [] type = "CLASS_ASSIGNMENT" ->
           <<"C", "L", "A", "S", "S", "_", "A", "S", "S", "I", "G", "N", "M", "E", "N", "T">>
      [] type = "CLASS_PROJECT" ->
           <<"C", "L", "A", "S", "S", "_", "P", "R", "O", "J", "E", "C", "T">>
      [] type = "CLASS_PRESENTATION" ->
           <<"C", "L", "A", "S", "S", "_", "P", "R", "E", "S", "E", "N", "T", "A", "T", "I", "O", "N">>
      [] type = "CLASS_TEST" ->
           <<"C", "L", "A", "S", "S", "_", "T", "E", "S", "T">>
      [] type = "CLASS_EXAM" ->
           <<"C", "L", "A", "S", "S", "_", "E", "X", "A", "M">>

\* String.prototype.startsWith
StartsWith(chars, prefix) ==
    /\ Len(chars) >= Len(prefix)
    /\ SubSeq(chars, 1, Len(prefix)) = prefix

\* a plausible slip: the GAME_ prefix left out
IsAutoGraded_QuizOnly(type) ==
    StartsWith(CharsOf(type), <<"Q", "U", "I", "Z", "_">>)

\* activity.type.startsWith('QUIZ_') || activity.type.startsWith('GAME_')
IsAutoGraded(type) ==
    \/ StartsWith(CharsOf(type), <<"Q", "U", "I", "Z", "_">>)
    \/ StartsWith(CharsOf(type), <<"G", "A", "M", "E", "_">>)

\* Math.random() is u / RandomDenominator for some u in 0..RandomDenominator-1
RandomDenominator == 1000

\* Math.floor(Math.random() * 100)
SeedObtainedMarks(u) == (u * 100) \div RandomDenominator

\* a plausible slip: a strict comparison
SeedIsPassing_Strict(obtainedMarks) == obtainedMarks > 60

\* obtainedMarks >= 60
SeedIsPassing(obtainedMarks) == obtainedMarks >= 60

MaxSeedRuns == 3

\* const classNames
SeedClassNames == <<"Grade 1-A", "Grade 7-A", "Grade 10-A">>

\* the id of the class row with this name, where class.findFirst finds one
ClassIdOfName(name) ==
    CASE name = "Grade 1-A" -> "c1"
      [] name = "Grade 7-A" -> "c2"
      [] name = "Grade 10-A" -> "c3"

\* the class names for which class.findFirst finds a row
ClassesFoundInputs == { {}, {"Grade 1-A"} }

\* studentProfile.findMany: the user ids of the student profiles
StudentLists == { << >>, <<"st1">>, <<"st1", "st2">> }

\* draws either side of the pass mark
RandomSamples == {599, 600}

\* the four activities of a class; a title is its text followed by the class
\* name, a configuration without marks has 0 for them
SeedActivityInputs(className) ==
    << [title |-> <<"Math Quiz - ", className>>, type |-> "QUIZ_MULTIPLE_CHOICE",
        classId |-> ClassIdOfName(className),
        configuration |-> [totalMarks |-> 20, passingMarks |-> 12,
                           gradingType |-> "AUTOMATIC"]],
       [title |-> <<"Vocabulary Game - ", className>>, type |-> "GAME_WORD_SEARCH",
        classId |-> ClassIdOfName(className),
        configuration |-> [totalMarks |-> 10, passingMarks |-> 6,
                           gradingType |-> "AUTOMATIC"]],
       [title |-> <<"Science Project - ", className>>, type |-> "CLASS_PROJECT",
        classId |-> ClassIdOfName(className),
        configuration |-> [totalMarks |-> 100, passingMarks |-> 60,
                           gradingType |-> "MANUAL"]],
       [title |-> <<"Reading Assignment - ", className>>, type |-> "READING",
        classId |-> ClassIdOfName(className),
        configuration |-> [totalMarks |-> Absent, passingMarks |-> Absent,
                           gradingType |-> "NONE"]] >>

\* the activities of the classes found, in the order of the two loops
RECURSIVE SeedUpsertInputs(_, _)
SeedUpsertInputs(names, found) ==
    IF names = << >> THEN << >>
    ELSE (IF Head(names) \in found THEN SeedActivityInputs(Head(names)) ELSE << >>)
         \o SeedUpsertInputs(Tail(names), found)

\* the id of a new class_activities row
FreshActivityId(stored) ==
    CHOOSE i \in 1..(Cardinality(stored) + 1) :
        /\ \A a \in stored : a.id # i
        /\ \A j \in 1..(i - 1) : \E a \in stored : a.id = j

\* a plausible slip: upsert replaced by create
Upsert_AlwaysCreate(stored, input) ==
    [id |-> FreshActivityId(stored), title |-> input.title, classId |-> input.classId,
     type |-> input.type, configuration |-> input.configuration]

\* classActivity.upsert where title_classId: the row it returns
Upsert(stored, input) ==
    LET existing == { a \in stored : a.title = input.title /\ a.classId = input.classId }
    IN  [id |-> IF existing = {} THEN FreshActivityId(stored)
                ELSE (CHOOSE a \in existing : TRUE).id,
         title |-> input.title, classId |-> input.classId,
         type |-> input.type, configuration |-> input.configuration]

\* the loop of upserts: the table afterwards and createdActivities
RECURSIVE SeedUpsertAll(_, _, _)
SeedUpsertAll(inputs, stored, createdActivities) ==
    IF inputs = << >>
    THEN [activities |-> stored, createdActivities |-> createdActivities]
    ELSE LET created == Upsert(stored, Head(inputs)) IN
         SeedUpsertAll(Tail(inputs),
                       { a \in stored : a.id # created.id } \cup {created},
                       Append(createdActivities, created))

\* studentsToProcess of an activity, in the order of `students`
RECURSIVE StudentsToProcess(_, _, _)
StudentsToProcess(students, activityId, stored) ==
    IF students = << >> THEN << >>
    ELSE (IF \E i \in 1..Len(stored) :
                stored[i].activityId = activityId /\ stored[i].studentId = Head(students)
          THEN << >>
          ELSE << [activityId |-> activityId, studentId |-> Head(students)] >>)
         \o StudentsToProcess(Tail(students), activityId, stored)

\* the (activity, student) pairs that get a submission, activity by activity
RECURSIVE SeedMissingSubmissions(_, _, _)
SeedMissingSubmissions(createdActivities, students, stored) ==
    IF createdActivities = << >> THEN << >>
    ELSE StudentsToProcess(students, Head(createdActivities).id, stored)
         \o SeedMissingSubmissions(Tail(createdActivities), students, stored)

\* activitySubmission.create of the seed, u the random draw
SeedSubmission(activityId, type, studentId, u) ==
    LET isAutoGraded == IsAutoGraded(type)
        obtainedMarks == SeedObtainedMarks(u)
    IN  [activityId |-> activityId, studentId |-> studentId,
         status |-> IF isAutoGraded THEN "GRADED" ELSE "SUBMITTED",
         totalMarks |-> 100, obtainedMarks |-> obtainedMarks,
         isPassing |-> SeedIsPassing(obtainedMarks),
         gradedAt |-> IF isAutoGraded THEN "now" ELSE None,
         gradedBy |-> IF isAutoGraded THEN "SYSTEM" ELSE None,
         gradingType |-> IF isAutoGraded THEN "AUTOMATIC" ELSE "MANUAL"]

TypeOfActivity(stored, id) == (CHOOSE a \in stored : a.id = id).type

\* the n-th seed run since the last call of another procedure; `repeat` of the
\* call record tells a run with the classes and students of the run before
SeedRun == IF call.op = "seedActivities" THEN call.run + 1 ELSE 1

SeedActivities ==
    \E found \in ClassesFoundInputs, students \in StudentLists :
        /\ SeedRun <= MaxSeedRuns
        /\ LET upserted == SeedUpsertAll(SeedUpsertInputs(SeedClassNames, found),
                                         activities, << >>)
               missing == IF Len(students) > 0 /\ Len(upserted.createdActivities) > 0
                          THEN SeedMissingSubmissions(upserted.createdActivities,
                                                      students, submissions)
                          ELSE << >>
           IN  /\ activities' = upserted.activities
               /\ \E draws \in [1..Len(missing) -> RandomSamples] :
                     submissions' = submissions \o
                        [i \in 1..Len(missing) |->
                           SeedSubmission(missing[i].activityId,
                                          TypeOfActivity(upserted.activities,
                                                         missing[i].activityId),
                                          missing[i].studentId, draws[i])]
               /\ call' = [op |-> "seedActivities", run |-> SeedRun,
                           input |-> [classes |-> found, students |-> students],
                           repeat |-> /\ call.op = "seedActivities"
                                      /\ call.input = [classes |-> found,
                                                       students |-> students],
                           result |-> upserted.createdActivities, error |-> Ok]
        /\ UNCHANGED <<dbVars, view, inflight>>

\* the store before the seed: empty, or holding an activity with the title and
\* class of a seeded one
InitSeed ==
    /\ timetables = {}
    /\ periods = {}
    /\ breakTimes = {}
    /\ submissions = << >>
    /\ activities \in { {},
                        { [id |-> 1, title |-> <<"Science Project - ", "Grade 1-A">>,
                           classId |-> "c1", type |-> "CLASS_ASSIGNMENT",
                           configuration |-> [totalMarks |-> 50, passingMarks |-> 20,
                                              gradingType |-> "MANUAL"]] } }
    /\ view = NoView
    /\ inflight = {}
    /\ call = NoCall

NextSeed == SeedActivities

SpecSeed == InitSeed /\ [][NextSeed]_vars

\* the ids of the class_activities rows
ActivityIds(stored) == { a.id : a \in stored }

\* one activity per (title, classId)
UniqueTitleClass(stored) ==
    \A a, b \in stored : (a.title = b.title /\ a.classId = b.classId) => a = b

\* one submission per (activity, student)
UniqueActivityStudent(stored) ==
    \A i, j \in 1..Len(stored) :
        (stored[i].activityId = stored[j].activityId
            /\ stored[i].studentId = stored[j].studentId) => i = j

\* every activity of the classes found is stored, and every student has a
\* submission to it
SeedComplete(found, students, storedActivities, storedSubmissions) ==
    LET inputs == SeedUpsertInputs(SeedClassNames, found) IN
    \A k \in 1..Len(inputs) :
        \E a \in storedActivities :
            /\ a.title = inputs[k].title
            /\ a.classId = inputs[k].classId
            /\ \A n \in 1..Len(students) :
                  \E i \in 1..Len(storedSubmissions) :
                      /\ storedSubmissions[i].activityId = a.id
                      /\ storedSubmissions[i].studentId = students[n]

\* C14: a seed run with the classes and the students of the run before it
\* creates no activity and no submission, and afterwards every (title, classId)
\* has exactly one activity and every (activity, student) exactly one
\* submission.
C14_SecondRunCreatesNothing ==
    [][ (call'.op = "seedActivities" /\ call'.repeat) =>
            /\ ActivityIds(activities') = ActivityIds(activities)
            /\ submissions' = submissions
            /\ UniqueTitleClass(activities')
            /\ UniqueActivityStudent(submissions')
            /\ SeedComplete(call'.input.classes, call'.input.students,
                            activities', submissions') ]_vars

\* a second run over a found class and two students has run
C14_Witness ==
    /\ call.op = "seedActivities"
    /\ call.repeat
    /\ call.run = 2
    /\ call.input.classes = {"Grade 1-A"}
    /\ Len(call.input.students) = 2
    /\ Cardinality(activities) = 4
    /\ Len(submissions) = 8

\* C15: the list seedActivities returns holds only activities the run
\* created: no activity that was stored before the run is in it.
C15_ReturnsOnlyCreated ==
    [][ call'.op = "seedActivities" =>
            \A i \in 1..Len(call'.result) :
                \A a \in activities : a.id # call'.result[i].id ]_vars

\* a run that repeats the one before it returns four activities
C15_Witness ==
    /\ call.op = "seedActivities"
    /\ call.repeat
    /\ Len(call.result) = 4
    /\ \A i \in 1..Len(call.result) : call.result[i] \in activities

\* the types with a QUIZ_ or GAME_ name
QuizAndGameTypes ==
    { "QUIZ_MULTIPLE_CHOICE", "QUIZ_DRAG_DROP", "QUIZ_FILL_BLANKS",
      "QUIZ_MEMORY", "QUIZ_TRUE_FALSE", "GAME_WORD_SEARCH",
      "GAME_CROSSWORD", "GAME_FLASHCARDS" }

\* C16: every submission of the seed has totalMarks 100, an integer
\* obtainedMarks in 0..99 and isPassing = (obtainedMarks >= 60), whatever the
\* activity; every mark of 0..99 can be drawn and exactly 40 of them pass.
C16_SeedMarks ==
    /\ \A i \in 1..Len(submissions) :
          /\ submissions[i].totalMarks = 100
          /\ submissions[i].obtainedMarks \in 0..99
          /\ submissions[i].isPassing = (submissions[i].obtainedMarks >= 60)
    /\ { SeedObtainedMarks(u) : u \in 0..(RandomDenominator - 1) } = 0..99
    /\ Cardinality({ m \in 0..99 : SeedIsPassing(m) }) = 40

\* a submission to the quiz of 20 marks passes with 60 of 100, and one to the
\* reading without marks fails with 59 of 100
C16_Witness ==
    /\ \E i \in 1..Len(submissions) :
          /\ submissions[i].obtainedMarks = 60
          /\ submissions[i].isPassing
          /\ \E a \in activities :
                /\ a.id = submissions[i].activityId
                /\ a.configuration.totalMarks = 20
    /\ \E i \in 1..Len(submissions) :
          /\ submissions[i].obtainedMarks = 59
          /\ ~submissions[i].isPassing
          /\ \E a \in activities :
                /\ a.id = submissions[i].activityId
                /\ a.type = "READING"

\* what C17 says of a submission to an activity of this type
GradedAsTypeSays(type, submission) ==
    IF type \in QuizAndGameTypes
    THEN /\ submission.status = "GRADED"
         /\ submission.gradedBy = "SYSTEM"
         /\ submission.gradedAt # None
    ELSE /\ submission.status = "SUBMITTED"
         /\ submission.gradedBy = None
         /\ submission.gradedAt = None

FormVariants == {"first", "second"}

\* the items of the activity-mode selector
ActivityModes == {"ONLINE", "IN_CLASS"}

\* defaultValues of useForm
FormDefaults(variant) ==
    [component |-> "ClassActivityForm", variant |-> variant,
     type |-> "CLASS_ASSIGNMENT",
     configuration |-> [activityMode |-> "IN_CLASS", isGraded |-> TRUE,
                        totalMarks |-> 100, passingMarks |-> 40,
                        gradingType |-> "MANUAL"]]

InitForm ==
    /\ timetables = {}
    /\ periods = {}
    /\ breakTimes = {}
    /\ submissions = << >>
    /\ activities = {}
    /\ view \in { FormDefaults(variant) : variant \in FormVariants }
    /\ inflight = {}
    /\ call = NoCall

\* first variant, onValueChange of the activity-mode selector
SelectActivityModeFirst ==
    \E value \in ActivityModes :
        /\ view.component = "ClassActivityForm"
        /\ view.variant = "first"
        /\ view' = [view EXCEPT
                      !.configuration.activityMode = value,
                      !.configuration.gradingType =
                          IF value = "ONLINE" THEN "AUTOMATIC" ELSE "MANUAL"]
        /\ UNCHANGED <<dbVars, submissions, activities, inflight, call>>

\* second variant, onValueChange={field.onChange} of the activity-mode selector
SelectActivityModeSecond ==
    \E value \in ActivityModes :
        /\ view.component = "ClassActivityForm"
        /\ view.variant = "second"
        /\ view' = [view EXCEPT !.configuration.activityMode = value]
        /\ UNCHANGED <<dbVars, submissions, activities, inflight, call>>

\* both variants, onValueChange={field.onChange} of the type selector
SelectType ==
    \E value \in ActivityTypes :
        /\ view.component = "ClassActivityForm"
        /\ view' = [view EXCEPT !.type = value]
        /\ UNCHANGED <<dbVars, submissions, activities, inflight, call>>

\* first variant, onValueChange of the is-graded selector
SelectIsGraded ==
    \E value \in {"true", "false"} :
        /\ view.component = "ClassActivityForm"
        /\ view.variant = "first"
        /\ view' = [view EXCEPT !.configuration.isGraded = (value = "true")]
        /\ UNCHANGED <<dbVars, submissions, activities, inflight, call>>

\* the numbers typed into the total-marks input
TotalMarksTyped == {50, 100}

\* both variants, onChange of the total-marks input: Number(e.target.value)
ChangeTotalMarks ==
    \E value \in TotalMarksTyped :
        /\ view.component = "ClassActivityForm"
        /\ view' = [view EXCEPT !.configuration.totalMarks = value]
        /\ UNCHANGED <<dbVars, submissions, activities, inflight, call>>

NextForm ==
    \/ ChangeTotalMarks
    \/ SelectActivityModeFirst
    \/ SelectActivityModeSecond
    \/ SelectType
    \/ SelectIsGraded

SpecForm == InitForm /\ [][NextForm]_vars

\* C18: from the form defaults, after any sequence of mode selections the
\* grading type of the form is AUTOMATIC if and only if its activity mode is
\* ONLINE: selecting ONLINE sets AUTOMATIC, selecting IN_CLASS sets MANUAL.
C18_GradingFollowsMode ==
    view.component = "ClassActivityForm" =>
        (view.configuration.gradingType = "AUTOMATIC"
            <=> view.configuration.activityMode = "ONLINE")

\* ONLINE has been selected in the second variant of the form
C18_Witness ==
    /\ view.component = "ClassActivityForm"
    /\ view.variant = "second"
    /\ view.configuration.activityMode = "ONLINE"


(***************************************************************************)
(* SpecView: TimetableView over a loaded timetable.  Strings are sequences *)
(* of UTF-16 code units, as in the times of day above.                     *)
(***************************************************************************)

\* Number.prototype.toString of a non-negative integer: its decimal digits
RECURSIVE NumberToString(_)
NumberToString(n) ==
    IF n < 10 THEN <<48 + n>>
    ELSE Append(NumberToString(n \div 10), 48 + (n % 10))

\* String.prototype.padStart with a one-character pad string
RECURSIVE PadStart(_, _, _)
PadStart(str, targetLength, padUnit) ==
    IF Len(str) >= targetLength THEN str
    ELSE PadStart(<<padUnit>> \o str, targetLength, padUnit)

\* parseInt of a string of decimal digits
RECURSIVE ParseInt(_)
ParseInt(str) ==
    IF Len(str) = 1 THEN str[1] - 48
    ELSE ParseInt(SubSeq(str, 1, Len(str) - 1)) * 10 + (str[Len(str)] - 48)

\* const DAYS
DAYS == <<"Monday", "Tuesday", "Wednesday", "Thursday", "Friday">>

\* Array.from({ length: 14 }, ...)
TimeSlotCount == 14

\* a plausible slip: the hour not padded
TimeSlot_NoPad(i) ==
    LET hour == (i \div 2) + 8
        minute == IF i % 2 = 0 THEN <<48, 48>> ELSE <<51, 48>>
    IN  NumberToString(hour) \o <<58>> \o minute

\* the callback of Array.from: `${hour.toString().padStart(2, "0")}:${minute}`
TimeSlot(i) ==
    LET hour == (i \div 2) + 8
        minute == IF i % 2 = 0 THEN <<48, 48>> ELSE <<51, 48>>
    IN  PadStart(NumberToString(hour), 2, 48) \o <<58>> \o minute

\* const TIME_SLOTS; the callback's index i is 0-based
TIME_SLOTS == [k \in 1..TimeSlotCount |-> TimeSlot(k - 1)]

\* the stored period shapes of the loaded timetable
ViewPeriodShapes == 0..3

\* period.teacher.user.id
UserIdOfTeacher(teacherId) ==
    CHOOSE userId \in TeacherUserIds : TeacherProfileOf(userId) = teacherId

\* getPeriodsForTimeSlot: the ids of the periods and break times of the day
\* whose interval holds the slot
getPeriodsForTimeSlot(day, timeSlot) ==
    [periods |-> { p.id : p \in
                     { q \in periods :
                         /\ q.dayOfWeek = day
                         /\ ~StrLess(timeSlot, ToTimeString(q.startTime))
                         /\ StrLess(timeSlot, ToTimeString(q.endTime)) } },
     breakTimes |-> { b \in breakTimes :
                         /\ b.dayOfWeek = day
                         /\ ~StrLess(timeSlot, b.startTime)
                         /\ StrLess(timeSlot, b.endTime) }]

\* renderDayView: one row per slot
renderDayView(selectedDay) ==
    [k \in 1..Len(TIME_SLOTS) |->
        [timeSlot |-> TIME_SLOTS[k],
         cells |-> <<getPeriodsForTimeSlot(selectedDay, TIME_SLOTS[k])>>]]

\* renderWeekView: one row per slot, one cell per day of DAYS
renderWeekView ==
    [k \in 1..Len(TIME_SLOTS) |->
        [timeSlot |-> TIME_SLOTS[k],
         cells |-> [index \in 1..Len(DAYS) |->
                       getPeriodsForTimeSlot(index, TIME_SLOTS[k])]]]

\* the component's state and what it renders from it
TimetableViewOf(viewMode, selectedDay, isDialogOpen, selectedPeriod) ==
    [component |-> "TimetableView", viewMode |-> viewMode,
     selectedDay |-> selectedDay, isDialogOpen |-> isDialogOpen,
     selectedPeriod |-> selectedPeriod,
     rows |-> IF viewMode = "day" THEN renderDayView(selectedDay)
              ELSE renderWeekView]

\* undefined where a period input is expected
NoPeriod == [timetableId |-> 0]

InitView ==
    /\ timetables = { [id |-> 1, classId |-> "c1", classGroupId |-> "g1", termId |-> "t1"] }
    /\ \E ks \in SUBSET ViewPeriodShapes :
          /\ Cardinality(ks) <= MaxStoredPeriods
          /\ periods = { StoredPeriod(k) : k \in ks }
    /\ breakTimes = {}
    /\ submissions = << >>
    /\ activities = {}
    /\ view = TimetableViewOf("day", 1, FALSE, NoPeriod)
    /\ inflight = {}
    /\ call = NoCall

\* Tabs onValueChange: setViewMode
SetViewMode ==
    \E value \in {"day", "week"} :
        /\ view.component = "TimetableView"
        /\ view' = TimetableViewOf(value, view.selectedDay, view.isDialogOpen,
                                   view.selectedPeriod)
        /\ UNCHANGED <<dbVars, submissions, activities, inflight, call>>

\* the day selector, shown in day view: setSelectedDay(parseInt(value))
SetSelectedDay ==
    \E index \in 0..(Len(DAYS) - 1) :
        /\ view.component = "TimetableView"
        /\ view.viewMode = "day"
        /\ view' = TimetableViewOf(view.viewMode,
                                   ParseInt(NumberToString(index + 1)),
                                   view.isDialogOpen, view.selectedPeriod)
        /\ UNCHANGED <<dbVars, submissions, activities, inflight, call>>

handleAddPeriod ==
    /\ view.component = "TimetableView"
    /\ view' = TimetableViewOf(view.viewMode, view.selectedDay, TRUE, NoPeriod)
    /\ UNCHANGED <<dbVars, submissions, activities, inflight, call>>

\* a click on the card of a rendered period
handleEditPeriod ==
    \E k \in 1..Len(view.rows) :
      \E c \in 1..Len(view.rows[k].cells) :
        \E id \in view.rows[k].cells[c].periods :
            LET period == CHOOSE p \in periods : p.id = id IN
            /\ view.component = "TimetableView"
            /\ view' = TimetableViewOf(view.viewMode, view.selectedDay, TRUE,
                          [startTime |-> ToTimeString(period.startTime),
                           endTime |-> ToTimeString(period.endTime),
                           daysOfWeek |-> <<period.dayOfWeek>>,
                           durationInMinutes |-> period.durationInMinutes,
                           teacherId |-> UserIdOfTeacher(period.teacherId),
                           classroomId |-> period.classroomId,
                           subjectId |-> period.subjectId,
                           timetableId |-> period.timetableId])
            /\ UNCHANGED <<dbVars, submissions, activities, inflight, call>>

\* PeriodDialog onClose
CloseDialog ==
    /\ view.component = "TimetableView"
    /\ view.isDialogOpen
    /\ view' = TimetableViewOf(view.viewMode, view.selectedDay, FALSE,
                               view.selectedPeriod)
    /\ UNCHANGED <<dbVars, submissions, activities, inflight, call>>

\* PeriodDialog onSave; the invalidated query loads the same timetable again
handlePeriodSave ==
    /\ view.component = "TimetableView"
    /\ view.isDialogOpen
    /\ view' = TimetableViewOf(view.viewMode, view.selectedDay, FALSE, NoPeriod)
    /\ UNCHANGED <<dbVars, submissions, activities, inflight, call>>

NextView ==
    \/ SetViewMode
    \/ SetSelectedDay
    \/ handleAddPeriod
    \/ handleEditPeriod
    \/ CloseDialog
    \/ handlePeriodSave

SpecView == InitView /\ [][NextView]_vars

\* C19: the rows TimetableView renders carry a ladder of exactly 14 time
\* slots, the first "08:00" and the last "14:30", each 30 minutes after and
\* greater as a string than the one before, slot i (from 0) being hour
\* floor(i / 2) + 8 with minutes "00" for even i and "30" for odd i.
C19_TimeSlotLadder ==
    view.component = "TimetableView" =>
        LET slots == [k \in 1..Len(view.rows) |-> view.rows[k].timeSlot] IN
        /\ Len(slots) = 14
        /\ slots = TIME_SLOTS
        /\ slots[1] = <<48, 56, 58, 48, 48>>
        /\ slots[14] = <<49, 52, 58, 51, 48>>
        /\ \A k \in 1..13 :
              /\ MinutesOf(slots[k + 1]) = MinutesOf(slots[k]) + 30
              /\ StrLess(slots[k], slots[k + 1])
        /\ \A i \in 0..13 :
              slots[i + 1] = HHmm((i \div 2) + 8, IF i % 2 = 0 THEN 0 ELSE 30)

\* the week view shows a period of Monday in the row of "09:30"
C19_Witness ==
    /\ view.component = "TimetableView"
    /\ view.viewMode = "week"
    /\ \E k \in 1..Len(view.rows) :
          /\ view.rows[k].timeSlot = <<48, 57, 58, 51, 48>>
          /\ view.rows[k].cells[1].periods # {}


(***************************************************************************)
(* SpecRace: timetable.create requests served concurrently.  Every await   *)
(* of the handler is a point where another request can run: the existence  *)
(* query is one step, what follows it another.                             *)
(***************************************************************************)

\* the concurrent requests
RequestIds == {1, 2}

\* the inputs of the requests: one term, no break times
RaceInputs == { input \in TimetableInputs : input.termId = "t1" /\ input.breakTimes = << >> }

Request(rid) == CHOOSE r \in inflight : r.rid = rid

\* the request rid moved on to r
Moved(rid, r) == (inflight \ {Request(rid)}) \cup {r}

InitRace ==
    /\ timetables \in { {}, { t \in SeedTimetables : t.id = 2 } }
    /\ periods = {}
    /\ breakTimes = {}
    /\ submissions = << >>
    /\ activities = {}
    /\ view = NoView
    /\ inflight = {}
    /\ call = NoCall

\* a request arrives and its handler starts
BeginCreate ==
    \E rid \in RequestIds, input \in RaceInputs :
        /\ \A r \in inflight : r.rid # rid
        /\ inflight' = inflight \cup
              { [rid |-> rid, input |-> input, pc |-> "findFirst",
                 existing |-> FALSE, error |-> Ok, id |-> 0] }
        /\ UNCHANGED <<dbVars, submissions, activities, view, call>>

\* await ctx.prisma.timetable.findFirst: the answer is kept in existingTimetable
AwaitFindFirst ==
    \E rid \in { r.rid : r \in inflight }, fail \in {"none", "timetable.findFirst"} :
        LET r == Request(rid) IN
        /\ r.pc = "findFirst"
        /\ \/ /\ fail = "none"
              /\ inflight' = Moved(rid, [r EXCEPT !.pc = "checked",
                                 !.existing = (ExistingTimetables(r.input) # {})])
              /\ UNCHANGED call
           \/ /\ fail = "timetable.findFirst"
              /\ LET error == TRPCError("INTERNAL_SERVER_ERROR",
                                        "Failed to create timetable",
                                        StoreError(fail).message) IN
                 /\ inflight' = Moved(rid, [r EXCEPT !.pc = "done", !.error = error])
                 /\ call' = [op |-> "create", input |-> r.input, fail |-> fail,
                             id |-> 0, error |-> error]
        /\ UNCHANGED <<dbVars, submissions, activities, view>>

\* a plausible slip: the store asked again where the answer is used
SeesExisting_AtInsert(r) == ExistingTimetables(r.input) # {}

\* if (existingTimetable): the answer of the query made before
SeesExisting(r) == r.existing

\* if (existingTimetable) throw new TRPCError({ code: 'CONFLICT', ... })
ThrowConflict ==
    \E rid \in { r.rid : r \in inflight } :
        LET r == Request(rid)
            error == TRPCError("CONFLICT",
                        "A timetable already exists for this class in the selected term",
                        None)
        IN  /\ r.pc = "checked"
            /\ SeesExisting(r)
            /\ inflight' = Moved(rid, [r EXCEPT !.pc = "done", !.error = error])
            /\ call' = [op |-> "create", input |-> r.input, fail |-> "none",
                        id |-> 0, error |-> error]
            /\ UNCHANGED <<dbVars, submissions, activities, view>>

\* return timetableService.createTimetable(input)
ReturnCreateTimetable ==
    \E rid \in { r.rid : r \in inflight }, fail \in CreateFailurePoints :
        LET r == Request(rid) IN
        /\ r.pc = "checked"
        /\ ~SeesExisting(r)
        /\ ServiceFailurePoint(r.input, fail)
        /\ CreateWithinBounds(r.input)
        /\ LET created == ServiceCreateTimetable(r.input, fail) IN
             /\ timetables' = created.timetables
             /\ periods' = created.periods
             /\ breakTimes' = created.breakTimes
             /\ inflight' = Moved(rid, [r EXCEPT !.pc = "done",
                                        !.error = created.error, !.id = created.id])
             /\ call' = [op |-> "create", input |-> r.input, fail |-> fail,
                         id |-> created.id, error |-> created.error]
        /\ UNCHANGED <<submissions, activities, view>>

NextRace ==
    \/ BeginCreate
    \/ AwaitFindFirst
    \/ ThrowConflict
    \/ ReturnCreateTimetable

SpecRace == InitRace /\ [][NextRace]_vars

\* the request was answered without an error
Succeeded(r) == r.pc = "done" /\ r.error.kind = "ok"

\* C20: a create request is refused with CONFLICT exactly when its own
\* existence query found a timetable, whatever was inserted since; so two
\* requests for the same class and term whose queries both ran before either
\* insert both succeed and leave two timetables of that class in that term.
C20_CheckThenInsertRace ==
    /\ \A r \in inflight :
          r.pc = "done" =>
              /\ (r.error.code = "CONFLICT") <=> r.existing
              /\ Succeeded(r) =>
                    \E t \in TimetablesOfClassInTerm(r.input) : t.id = r.id
    /\ \A r1, r2 \in inflight :
          (/\ r1.rid # r2.rid
           /\ r1.input.classId = r2.input.classId
           /\ r1.input.termId = r2.input.termId
           /\ Succeeded(r1)
           /\ Succeeded(r2))
          => /\ r1.id # r2.id
             /\ Cardinality(TimetablesOfClassInTerm(r1.input)) >= 2

\* both requests, for one class and term, were answered without an error and
\* the store holds two timetables of that class in that term
C20_Witness ==
    \E r1, r2 \in inflight :
        /\ r1.rid # r2.rid
        /\ r1.input.classId = r2.input.classId
        /\ r1.input.termId = r2.input.termId
        /\ Succeeded(r1)
        /\ Succeeded(r2)
        /\ ~r1.existing
        /\ ~r2.existing
        /\ Cardinality(TimetablesOfClassInTerm(r1.input)) = 2


(***************************************************************************)
(* SpecPeriodRace: single-day createPeriod requests served concurrently;   *)
(* each await of the handler is a step of its own.                         *)
(***************************************************************************)

\* the inputs of the concurrent createPeriod requests, all for timetable 1
PeriodRaceInputs ==
    { input \in SingleDayPeriodInputs : input.id = 1 /\ input.timetableId = 1 }

InitPeriodRace ==
    /\ timetables = { t \in SeedTimetables : t.id = 1 }
    /\ periods = {}
    /\ breakTimes = {}
    /\ submissions = << >>
    /\ activities = {}
    /\ view = NoView
    /\ inflight = {}
    /\ call = NoCall

\* a createPeriod request arrives and its handler starts
BeginCreatePeriod ==
    \E rid \in RequestIds, input \in PeriodRaceInputs :
        /\ \A r \in inflight : r.rid # rid
        /\ inflight' = inflight \cup
              { [rid |-> rid, input |-> input, pc |-> "period.findFirst",
                 existing |-> FALSE, teacherProfile |-> None, error |-> Ok, id |-> 0] }
        /\ UNCHANGED <<dbVars, submissions, activities, view, call>>

\* await ctx.prisma.period.findFirst: the answer is kept in existingPeriod
AwaitPeriodFindFirst ==
    \E rid \in { r.rid : r \in inflight } :
        LET r == Request(rid) IN
        /\ r.pc = "period.findFirst"
        /\ inflight' = Moved(rid, [r EXCEPT !.pc = "checked",
                           !.existing = (ExistingPeriods(r.input, r.input.teacherId, 0) # {})])
        /\ UNCHANGED <<dbVars, submissions, activities, view, call>>

\* a plausible slip: the store asked again where the answer is used
SeesExistingPeriod_AtInsert(r) == ExistingPeriods(r.input, r.input.teacherId, 0) # {}

\* if (existingPeriod): the answer of the query made before
SeesExistingPeriod(r) == r.existing

\* if (existingPeriod) throw CONFLICT; otherwise await teacherProfile.findFirst
AwaitTeacherProfile ==
    \E rid \in { r.rid : r \in inflight } :
        LET r == Request(rid) IN
        /\ r.pc = "checked"
        /\ \/ /\ SeesExistingPeriod(r)
              /\ inflight' = Moved(rid, [r EXCEPT !.pc = "done", !.error = ScheduleConflict])
              /\ call' = [op |-> "createPeriod", input |-> r.input,
                          error |-> ScheduleConflict]
           \/ /\ ~SeesExistingPeriod(r)
              /\ inflight' = Moved(rid, [r EXCEPT !.pc = "teacherProfile.findFirst",
                                 !.teacherProfile = TeacherProfileOf(r.input.teacherId)])
              /\ UNCHANGED call
        /\ UNCHANGED <<dbVars, submissions, activities, view>>

\* if (!teacherProfile) throw NOT_FOUND; otherwise await period.create
AwaitPeriodCreate ==
    \E rid \in { r.rid : r \in inflight } :
        LET r == Request(rid) IN
        /\ r.pc = "teacherProfile.findFirst"
        /\ \/ /\ r.teacherProfile = None
              /\ LET error == TRPCError("NOT_FOUND", "Teacher profile not found", None) IN
                 /\ inflight' = Moved(rid, [r EXCEPT !.pc = "done", !.error = error])
                 /\ call' = [op |-> "createPeriod", input |-> r.input, error |-> error]
              /\ UNCHANGED periods
           \/ /\ r.teacherProfile # None
              /\ Cardinality(periods) < MaxPeriods
              /\ LET id == NthSmallest(FreePeriodIds(periods), 1) IN
                 /\ periods' = periods \cup
                       { [id |-> id,
                          timetableId |-> r.input.timetableId,
                          startTime |-> r.input.startTime,
                          endTime |-> r.input.endTime,
                          dayOfWeek |-> r.input.dayOfWeek,
                          durationInMinutes |-> r.input.durationInMinutes,
                          subjectId |-> r.input.subjectId,
                          teacherId |-> r.teacherProfile,
                          classroomId |-> r.input.classroomId] }
                 /\ inflight' = Moved(rid, [r EXCEPT !.pc = "done", !.id = id])
                 /\ call' = [op |-> "createPeriod", input |-> r.input, error |-> Ok]
        /\ UNCHANGED <<timetables, breakTimes, submissions, activities, view>>

NextPeriodRace ==
    \/ BeginCreatePeriod
    \/ AwaitPeriodFindFirst
    \/ AwaitTeacherProfile
    \/ AwaitPeriodCreate

SpecPeriodRace == InitPeriodRace /\ [][NextPeriodRace]_vars

\* the two inputs name one classroom and their time ranges overlap
SameRoomOverlapping(input1, input2) ==
    /\ input1.classroomId = input2.classroomId
    /\ input1.startTime <= input2.endTime
    /\ input1.endTime >= input2.startTime

\* C21: a createPeriod request is refused with CONFLICT exactly when its own
\* conflict query found a period; so two requests for one classroom with
\* overlapping times whose queries both ran before either insert both succeed
\* and leave two overlapping periods of that classroom, each of which the
\* conflict query of the other request, made now, would find.
C21_PeriodCheckThenInsertRace ==
    /\ \A r \in inflight :
          r.pc = "done" => ((r.error.code = "CONFLICT") <=> r.existing)
    /\ \A r1, r2 \in inflight :
          (/\ r1.rid # r2.rid
           /\ SameRoomOverlapping(r1.input, r2.input)
           /\ Succeeded(r1)
           /\ Succeeded(r2))
          => /\ r1.id # r2.id
             /\ \E p1, p2 \in periods :
                   /\ p1.id = r1.id
                   /\ p2.id = r2.id
                   /\ p1.classroomId = p2.classroomId
                   /\ p1.startTime <= p2.endTime
                   /\ p1.endTime >= p2.startTime
                   /\ p2 \in ExistingPeriods(r1.input, r1.input.teacherId, 0)
                   /\ p1 \in ExistingPeriods(r2.input, r2.input.teacherId, 0)

\* both requests, for the same classroom, day and time range, were answered
\* without an error and both periods are stored
C21_Witness ==
    \E r1, r2 \in inflight :
        /\ r1.rid # r2.rid
        /\ r1.input = r2.input
        /\ Succeeded(r1)
        /\ Succeeded(r2)
        /\ Cardinality({ p \in periods : p.classroomId = r1.input.classroomId
                                          /\ p.dayOfWeek = r1.input.dayOfWeek }) = 2


(***************************************************************************)
(* SpecSeedFail: seedActivities where an activitySubmission.create can     *)
(* fail.  The creates of a batch are all started by the map before         *)
(* Promise.all is awaited; its rejection leaves seedActivities through the *)
(* two loops, nothing catching it.                                         *)
(***************************************************************************)

\* the submissions a run persists when the create of missing[k] fails: those
\* of the batches awaited before, and `others` of the failing batch
PersistedOnFailure(missing, k, others) ==
    LET Kept(m) ==
            \/ \E i \in 1..(k - 1) :
                  missing[i] = m /\ missing[i].activityId # missing[k].activityId
            \/ m \in others
    IN  SelectSeq(missing, Kept)

\* the other creates of the batch of missing[k]
BatchOthers(missing, k) ==
    { missing[i] : i \in { j \in 1..Len(missing) :
                             j # k /\ missing[j].activityId = missing[k].activityId } }

\* the last run of a sequence of runs that can fail
MaxFailingRun == 1

\* a run in which the create of one submission rejects; each other create of
\* its batch was started and is persisted or not as the store gets to it
\* before the caller ends
SeedActivitiesFailing ==
    \E found \in ClassesFoundInputs, students \in StudentLists :
        /\ SeedRun <= MaxFailingRun
        /\ LET upserted == SeedUpsertAll(SeedUpsertInputs(SeedClassNames, found),
                                         activities, << >>)
               missing == IF Len(students) > 0 /\ Len(upserted.createdActivities) > 0
                          THEN SeedMissingSubmissions(upserted.createdActivities,
                                                      students, submissions)
                          ELSE << >>
           IN  \E k \in 1..Len(missing) :
               \E others \in SUBSET BatchOthers(missing, k) :
               LET persisted == PersistedOnFailure(missing, k, others) IN
               /\ activities' = upserted.activities
               /\ \E draws \in [1..Len(persisted) -> RandomSamples] :
                     submissions' = submissions \o
                        [i \in 1..Len(persisted) |->
                           SeedSubmission(persisted[i].activityId,
                                          TypeOfActivity(upserted.activities,
                                                         persisted[i].activityId),
                                          persisted[i].studentId, draws[i])]
               /\ call' = [op |-> "seedActivities", run |-> SeedRun,
                           input |-> [classes |-> found, students |-> students],
                           repeat |-> /\ call.op = "seedActivities"
                                      /\ call.input = [classes |-> found,
                                                       students |-> students],
                           result |-> upserted.createdActivities,
                           error |-> StoreError("activitySubmission.create"),
                           failed |-> missing[k]]
        /\ UNCHANGED <<dbVars, view, inflight>>

NextSeedFail == SeedActivities \/ SeedActivitiesFailing

SpecSeedFail == InitSeed /\ [][NextSeedFail]_vars

\* the submissions to an activity
SubmissionsTo(stored, activityId) ==
    { i \in 1..Len(stored) : stored[i].activityId = activityId }

\* C22: when the creation of one student's submission fails, no submission of
\* that activity's batch is persisted by the run.
C22_BatchAllOrNothing ==
    [][ (call'.op = "seedActivities" /\ call'.error.kind # "ok") =>
            SubmissionsTo(submissions', call'.failed.activityId)
                = SubmissionsTo(submissions, call'.failed.activityId) ]_vars

\* a failed run over two students after which the failing activity has a
\* submission
C22_Witness ==
    /\ call.op = "seedActivities"
    /\ call.error.kind # "ok"
    /\ call.run = 1
    /\ Len(call.input.students) = 2
    /\ SubmissionsTo(submissions, call.failed.activityId) # {}

\* C23: after a run in which one submission creation failed, every other
\* activity of the run, earlier or later in the loop, has a submission for
\* each student.
C23_OtherBatchesUnaffected ==
    [][ (call'.op = "seedActivities" /\ call'.error.kind # "ok") =>
            \A k \in 1..Len(call'.result) :
                call'.result[k].id # call'.failed.activityId =>
                    \A n \in 1..Len(call'.input.students) :
                        \E i \in SubmissionsTo(submissions', call'.result[k].id) :
                            submissions'[i].studentId = call'.input.students[n] ]_vars

\* a failed run after which an activity later in the loop than the failing one
\* has no submission, and an earlier one has its submissions
C23_Witness ==
    /\ call.op = "seedActivities"
    /\ call.error.kind # "ok"
    /\ \E k1, k2, k3 \in 1..Len(call.result) :
          /\ k1 < k2
          /\ k2 < k3
          /\ call.result[k2].id = call.failed.activityId
          /\ Cardinality(SubmissionsTo(submissions, call.result[k1].id))
                = Len(call.input.students)
          /\ SubmissionsTo(submissions, call.result[k3].id) = {}


(***************************************************************************)
(* SpecDialog: TimetableView with its PeriodDialog.  A submit of the       *)
(* dialog awaits the checkAvailability mutation, which sits in `inflight`  *)
(* until it resolves or rejects; `call` then records the submit and the    *)
(* callbacks it invoked, in order.                                         *)
(***************************************************************************)

\* the values of the dialog's form when it is submitted: periods of Monday,
\* the day the view shows
DialogFormData ==
    { SingleDayPeriod(p) : p \in { q \in CandidatePeriods : q.daysOfWeek = <<1>> } }

\* Math.round((endTime.getTime() - startTime.getTime()) / 60000)
DurationInMinutes(data) == ToDate(data.endTime) - ToDate(data.startTime)

\* the break time the loaded timetable can have
StoredBreakTime ==
    [id |-> <<1, 1>>, startTime |-> HHmm(10, 0), endTime |-> HHmm(10, 15),
     type |-> "SHORT_BREAK", dayOfWeek |-> 1, timetableId |-> 1]

\* breakTimes={timetable.breakTimes ?? []}
BreakTimesProp == IF breakTimes = {} THEN << >> ELSE <<StoredBreakTime>>

InitDialog ==
    /\ timetables = { [id |-> 1, classId |-> "c1", classGroupId |-> "g1", termId |-> "t1"] }
    /\ \E ks \in SUBSET ViewPeriodShapes :
          /\ Cardinality(ks) <= MaxStoredPeriods
          /\ periods = { StoredPeriod(k) : k \in ks }
    /\ breakTimes \in { {}, {StoredBreakTime} }
    /\ submissions = << >>
    /\ activities = {}
    /\ view = TimetableViewOf("day", 1, FALSE, NoPeriod)
    /\ inflight = {}
    /\ call = NoCall

\* form.handleSubmit(onSubmit) up to `await checkAvailability(...)`
SubmitDialog ==
    \E data \in DialogFormData :
        /\ view.component = "TimetableView"
        /\ view.isDialogOpen
        /\ inflight = {}
        /\ inflight' = { [rid |-> 1, op |-> "checkAvailability",
                          period |-> view.selectedPeriod,
                          input |-> [period |-> [data EXCEPT !.durationInMinutes =
                                                    DurationInMinutes(data)],
                                     breakTimes |-> BreakTimesProp]] }
        /\ UNCHANGED <<dbVars, submissions, activities, view, call>>

\* a plausible slip: the `return` after the conflict toast left out
SubmitInvokes_NoReturn(resolved, availability) ==
    IF ~resolved THEN <<"toast">>
    ELSE IF ~availability.isAvailable
         THEN <<"toast", "onSave", "onClose", "toast">>
         ELSE <<"onSave", "onClose", "toast">>

\* the callbacks onSubmit invokes once the await is over, in order
SubmitInvokes(resolved, availability) ==
    IF ~resolved THEN <<"toast">>
    ELSE IF ~availability.isAvailable THEN <<"toast">>
         ELSE <<"onSave", "onClose", "toast">>

\* a plausible slip: onSave creating the period
PeriodsAfterSave_Created(stored, timetableId, data) ==
    stored \cup { [id |-> NthSmallest(FreePeriodIds(stored), 1),
                   timetableId |-> timetableId,
                   startTime |-> ToDate(data.startTime),
                   endTime |-> ToDate(data.endTime),
                   dayOfWeek |-> data.dayOfWeek,
                   durationInMinutes |-> data.durationInMinutes,
                   subjectId |-> data.subjectId,
                   teacherId |-> data.teacherId,
                   classroomId |-> data.classroomId] }

\* onSave(updatedData) is handlePeriodSave, which takes no argument and calls
\* no mutation: the stored periods afterwards
PeriodsAfterSave(stored, timetableId, data) == stored

\* what the callbacks do to the view: handlePeriodSave, then onClose
ViewAfter(invoked) ==
    IF \E i \in 1..Len(invoked) : invoked[i] = "onSave"
    THEN TimetableViewOf(view.viewMode, view.selectedDay, FALSE, NoPeriod)
    ELSE view

\* the rest of onSubmit, for an outcome of the await
AfterAwait(request, resolved, availability) ==
    LET invoked == SubmitInvokes(resolved, availability) IN
    /\ view' = ViewAfter(invoked)
    /\ periods' = IF \E i \in 1..Len(invoked) : invoked[i] = "onSave"
                  THEN PeriodsAfterSave(periods, 1, request.input.period)
                  ELSE periods
    /\ inflight' = {}
    /\ call' = [op |-> "PeriodDialog.onSubmit", data |-> request.input.period,
                period |-> request.period, resolved |-> resolved,
                availability |-> availability, invoked |-> invoked]
    /\ UNCHANGED <<timetables, breakTimes, submissions, activities>>

\* the mutation resolves with the answer of the single-day checkAvailability
CheckAvailabilityResolves ==
    \E request \in inflight :
        /\ request.op = "checkAvailability"
        /\ \E conflicts \in RouterDayConflicts(request.input.period,
                                               request.input.breakTimes,
                                               request.input.period.dayOfWeek) :
              AfterAwait(request, TRUE, AvailabilityCheck(conflicts))

\* the mutation rejects: the catch block
CheckAvailabilityRejects ==
    \E request \in inflight :
        /\ request.op = "checkAvailability"
        /\ AfterAwait(request, FALSE, AvailabilityCheck(<< >>))

NextDialog ==
    \/ handleAddPeriod
    \/ handleEditPeriod
    \/ CloseDialog
    \/ SubmitDialog
    \/ CheckAvailabilityResolves
    \/ CheckAvailabilityRejects

SpecDialog == InitDialog /\ [][NextDialog]_vars

\* the callback is among those the submit invoked
Invoked(callback) == \E i \in 1..Len(call.invoked) : call.invoked[i] = callback

\* C24: a submit of the PeriodDialog invokes onSave only when the availability
\* check has resolved with isAvailable = true, and then onClose right after
\* it; when the check resolves with a conflict or rejects, the submit invokes
\* neither onSave nor onClose.
C24_SaveOnlyWhenAvailable ==
    call.op = "PeriodDialog.onSubmit" =>
        /\ Invoked("onSave") =>
              /\ call.resolved
              /\ call.availability.isAvailable
              /\ Len(call.availability.conflicts) = 0
              /\ \A i \in 1..Len(call.invoked) :
                    call.invoked[i] = "onSave" =>
                        /\ i < Len(call.invoked)
                        /\ call.invoked[i + 1] = "onClose"
        /\ (~call.resolved \/ Len(call.availability.conflicts) > 0) =>
              /\ ~Invoked("onSave")
              /\ ~Invoked("onClose")
        /\ (call.resolved /\ call.availability.isAvailable) => Invoked("onSave")

\* a submit over a store with periods was saved and the dialog is closed
C24_Witness ==
    /\ call.op = "PeriodDialog.onSubmit"
    /\ call.resolved
    /\ call.availability.isAvailable
    /\ call.invoked = <<"onSave", "onClose", "toast">>
    /\ periods # {}
    /\ ~view.isDialogOpen

\* C30: no step of TimetableView or of its PeriodDialog (add period, edit
\* period, submit, save, close) changes the stored periods.
C30_SavesWriteNothing ==
    [][ periods' = periods ]_vars

\* the dialog opened on a stored period was submitted and saved
C30_Witness ==
    /\ call.op = "PeriodDialog.onSubmit"
    /\ Invoked("onSave")
    /\ call.period.timetableId = 1
    /\ view.selectedPeriod = NoPeriod
    /\ ~view.isDialogOpen


\* every list of conflicts each of the three implementations can return for
\* a candidate period of one day
SingleDayAnswers(period, breaks) ==
    LET p == SingleDayPeriod(period) IN
    RouterDayConflicts(p, breaks, p.dayOfWeek)
        \cup ServiceConflicts(p, breaks)
        \cup RouterMultiDayConflicts(period, breaks, period.daysOfWeek)

PeriodsOfTimetable(stored, timetableId) ==
    { p \in stored : p.timetableId = timetableId }

\* C26: when timetable.update fails with NOT_FOUND because a teacher id of its
\* input has no profile, the stored periods of the timetable are already
\* deleted and no period has been created: the timetable is left without
\* periods, and the periods of the other timetables are as they were.
C26_UpdateNotFoundLeavesNoPeriods ==
    [][ (call'.op = "update" /\ call'.error.code = "NOT_FOUND")
        => /\ \E i \in 1..Len(call'.input.periods) :
                 TeacherProfileOf(call'.input.periods[i].teacherId) = None
           /\ PeriodsOfTimetable(periods', call'.input.id) = {}
           /\ periods' = periods \ PeriodsOfTimetable(periods, call'.input.id)
      ]_vars

C26_Witness ==
    /\ call.op = "update"
    /\ call.error.code = "NOT_FOUND"
    /\ call.deleted > 0
    /\ PeriodsOfTimetable(periods, call.input.id) = {}

(***************************************************************************)
(* TimetableService.createTimetable: a failing period insert.              *)
(***************************************************************************)
\* the stored timetables of the input's class and term that have no period
TimetablesWithoutPeriods(stored, storedPeriods, input) ==
    { t \in stored : /\ t.classId = input.classId
                     /\ t.termId = input.termId
                     /\ PeriodsOfTimetable(storedPeriods, t.id) = {} }

\* C27: createTimetable writes the timetable row, the periods and the break
\* times in separate statements: when period.createMany fails, the new
\* timetable row stays stored, without periods and without break times; and a
\* create for a class and term that have such a row is rejected with CONFLICT
\* and writes nothing.
C27_FailedInsertLeavesTimetable ==
    [][ /\ (call'.op = "create" /\ call'.fail = "period.createMany")
            => /\ call'.error = StoreError("period.createMany")
               /\ \E t \in timetables' \ timetables :
                     /\ timetables' = timetables \cup {t}
                     /\ t \in TimetablesWithoutPeriods(timetables', periods', call'.input)
                     /\ \A b \in breakTimes' : b.timetableId # t.id
               /\ periods' = periods
               /\ breakTimes' = breakTimes
        /\ (/\ call'.op = "create"
            /\ call'.fail = "none"
            /\ TimetablesWithoutPeriods(timetables, periods, call'.input) # {})
            => /\ call'.error.code = "CONFLICT"
               /\ UNCHANGED dbVars
      ]_vars

C27_Witness ==
    /\ call.op = "create"
    /\ call.fail = "period.createMany"
    /\ Len(call.input.periods) > 0
    /\ \E t \in TimetablesWithoutPeriods(timetables, periods, call.input) :
          ExistingTimetables(call.input) = {t}

(***************************************************************************)
(* timetable.create: the existence check across a class group.             *)
(***************************************************************************)
\* the stored timetables of the term that share the class or the class group
SameClassOrGroupInTerm(classId, classGroupId, termId) ==
    { t \in timetables : /\ t.termId = termId
                         /\ (t.classId = classId \/ t.classGroupId = classGroupId) }

\* C28: a create, the store answering its queries, is rejected with CONFLICT
\* and writes nothing whenever a stored timetable of the input's term has the
\* input's classId or the input's classGroupId; so once one class of a class
\* group has a timetable in a term, no other class of that group gets one, and
\* the timetables of a term have pairwise different class groups.
C28_OneTimetablePerClassGroupTerm ==
    [][ /\ (/\ call'.op = "create"
            /\ call'.fail = "none"
            /\ SameClassOrGroupInTerm(call'.input.classId, call'.input.classGroupId,
                                      call'.input.termId) # {})
            => /\ call'.error.code = "CONFLICT"
               /\ UNCHANGED dbVars
        /\ \A t1, t2 \in timetables' :
              (t1.classGroupId = t2.classGroupId /\ t1.termId = t2.termId) => t1 = t2
      ]_vars

C28_Witness ==
    /\ call.op = "create"
    /\ call.error.code = "CONFLICT"
    /\ \A t \in timetables :
          t.termId = call.input.termId => t.classId # call.input.classId
    /\ \E t \in timetables : /\ t.termId = call.input.termId
                             /\ t.classGroupId = call.input.classGroupId

(***************************************************************************)
(* createPeriod, single-day variant, on its own: classroom conflicts       *)
(* across days.                                                            *)
(***************************************************************************)
NextCreatePeriod == CreatePeriodSingleDay

SpecCreatePeriod == InitMultiDay /\ [][NextCreatePeriod]_vars

\* start <= other end and end >= other start
RangesOverlapInclusive(p, q) ==
    p.startTime <= q.endTime /\ p.endTime >= q.startTime

\* the stored periods of the input's classroom whose range overlaps the input's
SameClassroomOverlapping(stored, input) ==
    { p \in stored : p.classroomId = input.classroomId /\ RangesOverlapInclusive(p, input) }

\* C29: a single-day createPeriod whose time range inclusively overlaps a stored
\* period of the same classroom is rejected with CONFLICT and writes nothing,
\* whatever the days of the two; so after any sequence of such calls, run one
\* at a time, no two stored periods of one classroom have inclusively
\* overlapping ranges, on the same day or on different days.
C29_ClassroomConflictAcrossDays ==
    [][ /\ (/\ call'.op = "createPeriod"
            /\ SameClassroomOverlapping(periods, call'.input) # {})
            => /\ call'.error = ScheduleConflict
               /\ UNCHANGED dbVars
        /\ \A p, q \in periods' :
              (p.classroomId = q.classroomId /\ RangesOverlapInclusive(p, q)) => p = q
      ]_vars

C29_Witness ==
    /\ call.op = "createPeriod"
    /\ call.error = ScheduleConflict
    /\ SameClassroomOverlapping(periods, call.input) # {}
    /\ \A p \in SameClassroomOverlapping(periods, call.input) :
          p.dayOfWeek # call.input.dayOfWeek
    /\ \E p, q \in periods : p # q /\ p.classroomId = q.classroomId

=============================================================================
